---- MODULE Spec2Model ----
(***************************************************************************)
(* A model of the rust-snes core: the master clock, the Bus with its GDMA  *)
(* and HDMA engines, the PPU dot counter and its events, the interrupt     *)
(* latches, the CPU's instruction boundary and interrupt entry, and the    *)
(* exec_frame loop that sequences them.                                    *)
(*                                                                         *)
(* The struct fields of the source keep their names.  Sequential Rust code *)
(* is translated into operators over a record m that carries the parts of  *)
(* the machine a callee may touch (m.now, m.bus, m.intr, m.ppu, m.obs);    *)
(* an action applies the operators of one handler and stores the result.   *)
(* m.obs holds history variables only: they record what happened and are   *)
(* never read by the modelled code.                                        *)
(***************************************************************************)
EXTENDS Integers, Sequences, FiniteSets, TLC

VARIABLES
    now,     \* counter::Counter.counter: the master clock
    cpu,     \* cpu::Cpu
    intr,    \* interrupt::Interrupt
    ppu,     \* ppu::Ppu (timing part)
    spc,     \* spc::Spc (timing part)
    bus,     \* bus::Bus (registers and DMA channels)
    cart,    \* cartridge::Cartridge: the bytes written to rom.rom and to sram
    loop,    \* position inside Snes::exec_frame
    guest,   \* the guest program and memory contents chosen for the run
    obs      \* history variables

vars == <<now, cpu, intr, ppu, spc, bus, cart, loop, guest, obs>>

-----------------------------------------------------------------------------
(* Program constants *)

CYCLE_FAST == 6
CYCLE_SLOW == 8
CYCLE_JOYPAD == 12
CPU_CYCLE == 6
GDMA_BYTE_CLOCKS == 8
GDMA_END_CLOCKS == 16
HDMA_SETUP_CLOCKS == 18
HDMA_BYTE_CLOCKS == 8
HDMA_INDIRECT_CLOCKS == 16
JOYPAD_BUSY_CLOCKS == 4224
PPU_DOT_CLOCKS == 4
DOTS_PER_LINE == 340
LINES_PER_FRAME == 262
VBLANK_LINE == 225
DRAM_REFRESH_DOT == 134
DRAM_REFRESH_CLOCKS == 40
HDMA_RELOAD_DOT == 6
HDMA_TRANSFER_DOT == 278
HDMA_LAST_LINE == 224
JOYPAD_DOT == 33
HBLANK_START_DOT == 274
SPC_RATE_NUM == 102400
SPC_RATE_DEN == 2147727
NUM_CHANNELS == 8

-----------------------------------------------------------------------------
(* Fixed-width arithmetic *)

U8(v) == v % 256
U16(v) == v % 65536
Bit(v, k) == (v \div (2 ^ k)) % 2
ClearBit(v, k) == v - Bit(v, k) * (2 ^ k)

\* u8::trailing_zeros (8 for the byte 0)
trailing_zeros(v) ==
    IF v = 0 THEN 8
    ELSE CHOOSE k \in 0..7 : Bit(v, k) = 1 /\ \A j \in 0..(k - 1) : Bit(v, j) = 0

Channels == 0..(NUM_CHANNELS - 1)

-----------------------------------------------------------------------------
(* bus.rs: DMA channel registers *)

\* #[derive(Default)] struct Dma
DmaDefault ==
    [ dma_params |-> 0, b_bus_address |-> 0, a_bus_address |-> 0, a_bus_bank |-> 0,
      number_of_bytes_to_transfer |-> 0, indirect_hdma_bank |-> 0,
      hdma_table_current_address |-> 0, hdma_line_counter |-> 0, unused |-> 0,
      is_hdma_active |-> FALSE, is_hdma_completed |-> FALSE ]

\* DmaParams bitfield: transfer_unit B3, a_bus_address_step 2 bits, 1 unused bit,
\* hdma_addr_mode 1 bit, transfer_direction 1 bit
params_transfer_unit(p) == p % 8
params_a_bus_address_step(p) == (p \div 8) % 4
params_hdma_indirect(p) == Bit(p, 6) = 1
params_BtoA(p) == Bit(p, 7) = 1

\* Dma::transfer_unit
transfer_unit(d) ==
    LET u == params_transfer_unit(d.dma_params) IN
    CASE u = 0 -> <<0>>
      [] u = 1 -> <<0, 1>>
      [] u \in {2, 6} -> <<0, 0>>
      [] u \in {3, 7} -> <<0, 0, 1, 1>>
      [] u = 4 -> <<0, 1, 2, 3>>
      [] u = 5 -> <<0, 1, 0, 1>>

\* the a_step match in gdma_exec: Increment, Fixed1, Decrement ((-1 as i16) as u16), Fixed3
a_step_of(d) ==
    LET s == params_a_bus_address_step(d.dma_params) IN
    CASE s = 0 -> 1
      [] s = 1 -> 0
      [] s = 2 -> 65535
      [] s = 3 -> 0

\* Bus::dma_write
dma_write(d, index, data) ==
    CASE index = 0 -> [d EXCEPT !.dma_params = data]
      [] index = 1 -> [d EXCEPT !.b_bus_address = data]
      [] index = 2 -> [d EXCEPT !.a_bus_address = (@ \div 256) * 256 + data]
      [] index = 3 -> [d EXCEPT !.a_bus_address = (@ % 256) + data * 256]
      [] index = 4 -> [d EXCEPT !.a_bus_bank = data]
      [] index = 5 -> [d EXCEPT !.number_of_bytes_to_transfer = (@ \div 256) * 256 + data]
      [] index = 6 -> [d EXCEPT !.number_of_bytes_to_transfer = (@ % 256) + data * 256]
      [] index = 7 -> [d EXCEPT !.indirect_hdma_bank = data]
      [] index = 8 -> [d EXCEPT !.hdma_table_current_address = (@ \div 256) * 256 + data]
      [] index = 9 -> [d EXCEPT !.hdma_table_current_address = (@ % 256) + data * 256]
      [] index = 10 -> [d EXCEPT !.hdma_line_counter = data]
      [] index = 11 -> [d EXCEPT !.unused = data]
      [] OTHER -> d

\* Bus::dma_read of channel ch of the bus b
dma_read(b, ch, index) ==
    LET d == b.dma[ch] IN
    CASE index = 0 -> d.dma_params
      [] index = 1 -> d.b_bus_address
      [] index = 2 -> d.a_bus_address % 256
      [] index = 3 -> d.a_bus_address \div 256
      [] index = 4 -> d.a_bus_bank
      [] index = 5 -> d.number_of_bytes_to_transfer % 256
      [] index = 6 -> d.number_of_bytes_to_transfer \div 256
      [] index = 7 -> d.indirect_hdma_bank
      [] index = 8 -> d.hdma_table_current_address % 256
      [] index = 9 -> d.hdma_table_current_address \div 256
      [] index = 10 -> d.hdma_line_counter
      [] index \in {11, 15} -> d.unused
      [] index \in 12..14 -> b.open_bus

-----------------------------------------------------------------------------
(* interrupt.rs *)

\* #[derive(Default)] struct Interrupt
InterruptDefault ==
    [ nmi_flag |-> FALSE, nmi_enable |-> FALSE, nmi |-> FALSE, nmi_raise |-> FALSE,
      hv_irq_enable |-> 0, h_count |-> 0, v_count |-> 0, irq |-> FALSE ]

\* a get_nmi_flag that would also drop a latched NMI (the read acknowledging it)
get_nmi_flag_ClearsPending(i) ==
    [i EXCEPT !.nmi_flag = FALSE, !.nmi_raise = FALSE, !.nmi = FALSE]

\* Interrupt::get_nmi_flag: the flag after the read; the value returned is i.nmi_flag
get_nmi_flag(i) == [i EXCEPT !.nmi_flag = FALSE]

\* Interrupt::set_nmi_flag
set_nmi_flag(i, flag) ==
    LET prev == i.nmi_flag /\ i.nmi_enable IN
    [i EXCEPT !.nmi_flag = flag,
              !.nmi_raise = IF ~prev /\ i.nmi_enable /\ flag THEN TRUE ELSE @]

\* Interrupt::set_nmi_enable
set_nmi_enable(i, flag) ==
    LET prev == i.nmi_flag /\ i.nmi_enable IN
    [i EXCEPT !.nmi_enable = flag,
              !.nmi_raise = IF ~prev /\ flag /\ i.nmi_flag THEN TRUE ELSE @]

\* Interrupt::nmi_occurred: the latches after the call; the value returned is i.nmi
nmi_occurred(i) == [i EXCEPT !.nmi = i.nmi_raise, !.nmi_raise = FALSE]

\* Interrupt::set_hv_irq_enable
set_hv_irq_enable(i, val) ==
    [i EXCEPT !.hv_irq_enable = val, !.irq = IF val = 0 THEN FALSE ELSE @]

\* Interrupt::set_irq
set_irq(i, flag) == [i EXCEPT !.irq = flag]

-----------------------------------------------------------------------------
(* bus.rs: address decoding, per-access billing, register side effects *)

\* banks 0x00..=0x3F | 0x80..=0xBF
IsSystemBank(bank) == bank \in 0..63 \/ bank \in 128..191

\* ctx.elapse(clock) called from a Bus::read or Bus::write arm
AccessElapse(m, clock) ==
    [m EXCEPT !.now = @ + clock,
              !.obs.access_in_dma = IF m.bus.is_dma_active THEN @ + clock ELSE @]

\* ctx.elapse(clock) called by the DMA engines themselves
EngineElapse(m, clock) == [m EXCEPT !.now = @ + clock, !.obs.engine_clock = @ + clock]

\* the clocks the matching arm of Bus::read bills
BusReadCycles(b, bank, offset) ==
    LET Guarded(c) == IF b.is_dma_active THEN 0 ELSE c IN
    IF IsSystemBank(bank) THEN
        CASE offset \in \h0000..\h1FFF -> Guarded(CYCLE_SLOW)
          [] offset \in \h2000..\h3FFF -> Guarded(CYCLE_FAST)
          [] offset \in \h4000..\h4015 -> Guarded(CYCLE_FAST)
          [] offset \in \h4016..\h4017 -> Guarded(CYCLE_JOYPAD)
          [] offset \in \h4018..\h4210 -> Guarded(CYCLE_FAST)
          [] offset = \h4211 -> 0
          [] offset \in \h4212..\h42FF -> Guarded(CYCLE_FAST)
          [] offset \in \h4300..\h437F -> 0
          [] offset \in \h4380..\h5FFF -> Guarded(CYCLE_FAST)
          [] offset \in \h6000..\hFFFF ->
                Guarded(IF bank < 128 THEN CYCLE_SLOW ELSE b.access_cycle_for_memory2)
    ELSE IF bank \in \h40..\h7F THEN Guarded(CYCLE_SLOW)
    ELSE Guarded(b.access_cycle_for_memory2)

\* the clocks the matching arm of Bus::write bills; the catch-all arm bills
\* CYCLE_SLOW without looking at is_dma_active
BusWriteCycles(b, bank, offset) ==
    LET Guarded(c) == IF b.is_dma_active THEN 0 ELSE c IN
    IF IsSystemBank(bank) THEN
        CASE offset \in \h0000..\h1FFF -> Guarded(CYCLE_SLOW)
          [] offset \in \h2100..\h2183 -> Guarded(CYCLE_FAST)
          [] offset = \h4016 -> 0
          [] offset \in \h4200..\h420D -> Guarded(CYCLE_FAST)
          [] offset \in \h4300..\h437F -> Guarded(CYCLE_FAST)
          [] offset \in \h6000..\hFFFF ->
                Guarded(IF bank \in 128..191 THEN b.access_cycle_for_memory2 ELSE CYCLE_SLOW)
          [] OTHER -> CYCLE_SLOW
    ELSE IF bank \in \h40..\h7F THEN Guarded(CYCLE_SLOW)
    ELSE Guarded(b.access_cycle_for_memory2)

\* the byte the guest's memory and the B-bus ports hold (chosen with the run)
MemByte(addr) == IF addr \in DOMAIN guest.mem THEN guest.mem[addr] ELSE guest.fill

CPU_VERSION == 2

\* open_bus & 0x70, open_bus & 0x7F, open_bus & 0x3E
OpenBus70(b) == ((b.open_bus \div 16) % 8) * 16
OpenBus7F(b) == b.open_bus % 128
OpenBus3E(b) == ((b.open_bus \div 2) % 32) * 2

\* the 0x4210 arm of Bus::read: nmi_flag << 7 | cpu_version | open_bus & 0x70
ReadRDNMI(m) == (IF m.intr.nmi_flag THEN 128 ELSE 0) + CPU_VERSION + OpenBus70(m.bus)

\* the 0x4211 arm of Bus::read: irq_occurred << 7 | open_bus & 0x7F
ReadTIMEUP(m) == (IF m.intr.irq THEN 128 ELSE 0) + OpenBus7F(m.bus)

\* the arms of Bus::read and Bus::write that call the cartridge
RoutedToCartridge(bank, offset) ==
    \/ IsSystemBank(bank) /\ offset \in \h6000..\hFFFF
    \/ bank \in \h40..\h7D
    \/ bank \in \hC0..\hFF

\* Cartridge::read and Cartridge::write end in a panic. LoRom: banks $00-$7D are
\* mirrored to $80-$FD; below offset $8000 the banks $80-$BF reach
\* `unreachable!(..)`, and the banks $F0-$FF compute `sram_offset %
\* self.sram.len()`, a division by zero without SRAM. HiRom: the same division
\* for $6000-$7FFF of the banks $00-$3F and $80-$BF. Any other map mode:
\* `unimplemented!()`
CartridgePanics(addr) ==
    LET bank == addr \div 65536
        mirror == IF bank < \h80 THEN bank + \h80 ELSE bank
        offset == addr % 65536
    IN  CASE guest.map_mode = "LoRom" ->
                /\ offset < \h8000
                /\ \/ mirror \in \h80..\hBF
                   \/ mirror \in \hF0..\hFF /\ guest.sram_len = 0
          [] guest.map_mode = "HiRom" ->
                /\ IsSystemBank(bank) /\ offset < \h8000
                /\ offset \in \h6000..\h7FFF => guest.sram_len = 0
          [] OTHER -> TRUE

\* Cartridge::new: no byte of the ROM written yet, the SRAM all zero
CartridgeNew == [rom |-> [i \in {} |-> 0], sram |-> [i \in {} |-> 0]]

\* self.rom.rom.len(): the image's length where the run fixes one, else the
\* 4 MiB that a LoRom index never exceeds
RomLen == IF "rom" \in DOMAIN guest THEN guest.rom.len ELSE \h400000

\* the array and the index that the match of Cartridge::read and of
\* Cartridge::write selects for an address that does not panic
CartridgeIndex(addr) ==
    LET bank == addr \div 65536
        offset == addr % 65536
        mirror == IF bank < \h80 THEN bank + \h80 ELSE bank
        Rom(i) == [array |-> "rom", index |-> i % RomLen]
        Sram(i) == [array |-> "sram", index |-> i % guest.sram_len]
    IN  IF guest.map_mode = "LoRom" THEN
            IF offset >= \h8000 THEN Rom((mirror - \h80) * 32768 + (offset - \h8000))
            ELSE IF mirror \in \hC0..\hEF THEN Rom((mirror - \h80) * 32768 + offset)
            ELSE Sram((mirror - \hF0) * 32768 + offset)
        ELSE IF bank \in \h00..\h3F THEN
            IF offset < \h8000 THEN Sram(bank * 8192 + (offset - \h6000)) ELSE Rom(addr)
        ELSE IF bank \in \h40..\h7D THEN Rom(addr - \h400000)
        ELSE IF bank \in \h80..\hBF THEN
            IF offset < \h8000 THEN Sram((bank - \h80) * 8192 + (offset - \h6000))
            ELSE Rom(addr - \h800000)
        ELSE Rom(addr - \hC00000)

\* the byte of the ROM image at an index, as loaded
ImageByte(addr, index) ==
    IF "rom" \in DOMAIN guest
    THEN (IF index \in DOMAIN guest.rom.bytes THEN guest.rom.bytes[index] ELSE 0)
    ELSE MemByte(addr)

\* Cartridge::read
cartridge_read(c, addr) ==
    LET t == CartridgeIndex(addr) IN
    IF t.index \in DOMAIN c[t.array] THEN c[t.array][t.index]
    ELSE IF t.array = "rom" THEN ImageByte(addr, t.index)
    ELSE 0

\* Cartridge::write: `self.sram[sram_index] = data` or `self.rom.rom[rom_index] = data`
cartridge_write(c, addr, data) ==
    LET t == CartridgeIndex(addr) IN
    [c EXCEPT ![t.array] = (t.index :> data) @@ @]

\* a $4212 whose bit 7 is never set
ReadHVBJOY_NoVBlank(m, t) ==
    (IF t < m.bus.auto_joypad_read_busy THEN 1 ELSE 0)
      + (IF m.ppu.is_hblank THEN 64 ELSE 0)
      + OpenBus3E(m.bus)

\* the 0x4212 arm of Bus::read, `t` being ctx.now() after the arm's elapse
ReadHVBJOY(m, t) ==
    (IF t < m.bus.auto_joypad_read_busy THEN 1 ELSE 0)
      + (IF m.ppu.is_hblank THEN 64 ELSE 0)
      + (IF m.ppu.is_vblank THEN 128 ELSE 0)
      + OpenBus3E(m.bus)

\* the 0x4218..=0x421F arm of Bus::read
ReadJOY(b, offset) ==
    LET index == (offset - \h4218) \div 2
        pos == (offset - \h4218) % 2
        word == b.controller[index % 2].data[index \div 2]
    IN  IF pos = 0 THEN word % 256 ELSE word \div 256

\* an entry of Ppu::cgram, of which the model keeps those written so far
CgramEntry(p, i) == IF i \in DOMAIN p.cgram THEN p.cgram[i] ELSE 0

\* a palette port that stores every byte it is written
ppu_write_NoLatch(p, addr, data) ==
    CASE addr = \h2121 -> [p EXCEPT !.palette_cgram_addr = data * 2]
      [] addr = \h2122 ->
            [p EXCEPT !.cgram = ((p.palette_cgram_addr \div 2) :> data) @@ @,
                      !.palette_cgram_addr = (@ + 1) % 512]
      [] OTHER -> p

\* Ppu::write, the arms of the palette port: 0x2121 and 0x2122 (no other arm
\* touches cgram, palette_cgram_addr or palette_cgram_lsb)
ppu_write(p, addr, data) ==
    CASE addr = \h2121 -> [p EXCEPT !.palette_cgram_addr = data * 2]
      [] addr = \h2122 ->
            LET stored == IF p.palette_cgram_addr % 2 = 0
                          THEN [p EXCEPT !.palette_cgram_lsb = data]
                          ELSE [p EXCEPT !.cgram =
                                   ((p.palette_cgram_addr \div 2)
                                        :> (data * 256 + p.palette_cgram_lsb)) @@ @]
            IN  [stored EXCEPT !.palette_cgram_addr = (@ + 1) % 512]
      [] OTHER -> p

\* the registers for which the model holds what Ppu::read returns: the
\* write-only ones, which reach the `_` arm, and the palette read port
PpuReadModelled(addr) == addr \in \h2100..\h2133 \/ addr = \h213B

\* Ppu::read: the 0x213B arm, and the `_ => { warn!(..); 0 }` arm
ppu_read(p, addr) ==
    IF addr = \h213B
    THEN LET cgram_data == CgramEntry(p, p.palette_cgram_addr \div 2)
         IN  [ppu |-> [p EXCEPT !.palette_cgram_addr = (@ + 1) % 512],
              data |-> IF p.palette_cgram_addr % 2 = 0 THEN cgram_data % 256
                       ELSE cgram_data \div 256]
    ELSE [ppu |-> p, data |-> 0]

\* Spc::read_port and Spc::write_port, the CPU's side of the mailbox
read_port(sp, port) == sp.cpu_out[port]
write_port(sp, port, data) == [sp EXCEPT !.cpu_in[port] = data]

\* Controller::initialize
initialize(c) == [c EXCEPT !.pos = 0]

\* Controller::read: the controller after the call (the position moves up to 16)
controller_read(c) == IF c.pos > 15 THEN c ELSE [c EXCEPT !.pos = @ + 1]

\* a pad that shifts its word out from bit 0 up
controller_bits_LsbFirst(c) ==
    IF c.pos > 15 THEN 3
    ELSE ((c.data[0] \div 2 ^ c.pos) % 2) + 2 * ((c.data[1] \div 2 ^ c.pos) % 2)

\* Controller::read: the two bits returned, bit 15 - pos of data[0] and of data[1]
controller_bits(c) ==
    IF c.pos > 15 THEN 3
    ELSE ((c.data[0] \div 2 ^ (15 - c.pos)) % 2)
           + 2 * ((c.data[1] \div 2 ^ (15 - c.pos)) % 2)

\* the 0x4016 | 0x4017 arm of Bus::read:
\* open_bus & 0xFC | data for port 1, open_bus & 0xE0 | 0x1C | data for port 2
ReadJOYSER(b, index) ==
    IF index = 0 THEN (b.open_bus \div 4) * 4 + controller_bits(b.controller[0])
    ELSE (b.open_bus \div 32) * 32 + 28 + controller_bits(b.controller[1])

\* the arms of Bus::read that return self.open_bus
ReadsOpenBus(offset) ==
    \/ offset \in \h2000..\h20FF
    \/ offset \in \h2181..\h3FFF
    \/ offset \in \h4000..\h4015
    \/ offset \in \h4018..\h420F
    \/ offset \in \h4220..\h42FF
    \/ offset \in \h4380..\h5FFF

\* Bus::read: [m |-> machine after the read, data |-> byte read]
BusRead(m, addr) ==
    LET bank == addr \div 65536
        offset == addr % 65536
        Arm(m1) ==
            IF IsSystemBank(bank) /\ offset = \h4210 THEN
                [m |-> [m1 EXCEPT !.intr = get_nmi_flag(@),
                                  !.obs.rdnmi = Append(@, [flag |-> m.intr.nmi_flag,
                                                           data |-> ReadRDNMI(m)])],
                 data |-> ReadRDNMI(m)]
            ELSE IF IsSystemBank(bank) /\ offset = \h4211 THEN
                [m |-> [m1 EXCEPT !.intr = set_irq(@, FALSE),
                                  !.obs.timeup = Append(@, [irq |-> m.intr.irq,
                                                            data |-> ReadTIMEUP(m)])],
                 data |-> ReadTIMEUP(m)]
            ELSE IF IsSystemBank(bank) /\ offset = \h4212 THEN
                [m |-> m1, data |-> ReadHVBJOY(m, m1.now)]
            ELSE IF IsSystemBank(bank) /\ ReadsOpenBus(offset) THEN
                [m |-> m1, data |-> m.bus.open_bus]
            ELSE IF IsSystemBank(bank) /\ PpuReadModelled(offset) THEN
                [m |-> [m1 EXCEPT !.ppu = ppu_read(@, offset).ppu],
                 data |-> ppu_read(m.ppu, offset).data]
            ELSE IF IsSystemBank(bank) /\ offset \in \h2140..\h217F THEN
                [m |-> m1, data |-> read_port(m.spc, offset % 4)]
            ELSE IF IsSystemBank(bank) /\ offset = \h2180 THEN
                [m |-> [m1 EXCEPT !.bus.wram_addr = (@ + 1) % \h20000],
                 data |-> IF m.bus.wram_addr \in DOMAIN m.bus.wram
                          THEN m.bus.wram[m.bus.wram_addr]
                          ELSE MemByte(\h7E0000 + m.bus.wram_addr)]
            ELSE IF IsSystemBank(bank) /\ offset \in \h4016..\h4017 THEN
                [m |-> [m1 EXCEPT !.bus.controller[offset - \h4016] = controller_read(@)],
                 data |-> ReadJOYSER(m.bus, offset - \h4016)]
            ELSE IF IsSystemBank(bank) /\ offset \in \h4218..\h421F THEN
                [m |-> m1, data |-> ReadJOY(m.bus, offset)]
            ELSE IF IsSystemBank(bank) /\ offset \in \h4300..\h437F THEN
                [m |-> m1, data |-> dma_read(m.bus, (offset \div 16) % 8, offset % 16)]
            ELSE IF IsSystemBank(bank) /\ offset \in DOMAIN m.bus.wram THEN
                [m |-> m1, data |-> m.bus.wram[offset]]
            ELSE IF bank \in {\h7E, \h7F} /\ (addr % \h20000) \in DOMAIN m.bus.wram THEN
                [m |-> m1, data |-> m.bus.wram[addr % \h20000]]
            ELSE IF RoutedToCartridge(bank, offset) /\ CartridgePanics(addr) THEN
                [m |-> [m1 EXCEPT !.obs.panic = "cartridge"], data |-> m.bus.open_bus]
            ELSE IF RoutedToCartridge(bank, offset) THEN
                [m |-> m1, data |-> cartridge_read(m.cart, addr)]
            ELSE [m |-> m1, data |-> MemByte(addr)]
        \* `self.open_bus = data` after the match
        Latch(r) == [m |-> [r.m EXCEPT !.bus.open_bus = r.data], data |-> r.data]
    IN  Latch(Arm(AccessElapse(m, BusReadCycles(m.bus, bank, offset))))

\* (count & 0x0100) | data  and  data << 8 | (count & 0x00FF) of the H/V timer arms
CountLow(count, data) == ((count \div 256) % 2) * 256 + data
CountHigh(count, data) == data * 256 + (count % 256)

\* Bus::write
BusWrite(m, addr, data) ==
    LET bank == addr \div 65536
        offset == addr % 65536
        Arm(m1) ==
            IF RoutedToCartridge(bank, offset) /\ CartridgePanics(addr) THEN
                [m1 EXCEPT !.obs.panic = "cartridge"]
            ELSE IF bank \in {\h7E, \h7F} THEN
                [m1 EXCEPT !.bus.wram = ((addr % \h20000) :> data) @@ @]
            ELSE IF RoutedToCartridge(bank, offset) THEN
                [m1 EXCEPT !.cart = cartridge_write(@, addr, data)]
            ELSE IF ~IsSystemBank(bank) THEN m1
            ELSE CASE offset \in \h0000..\h1FFF ->
                        [m1 EXCEPT !.bus.wram = (offset :> data) @@ @]
                   [] offset \in \h2100..\h213F ->
                        [m1 EXCEPT !.ppu = ppu_write(@, offset, data)]
                   [] offset \in \h2140..\h217F ->
                        [m1 EXCEPT !.spc = write_port(@, offset % 4, data)]
                   [] offset = \h2180 ->
                        [m1 EXCEPT !.bus.wram = (m.bus.wram_addr :> data) @@ @,
                                   !.bus.wram_addr = (@ + 1) % \h20000]
                   [] offset = \h2181 ->
                        [m1 EXCEPT !.bus.wram_addr = (@ \div 256) * 256 + data]
                   [] offset = \h2182 ->
                        [m1 EXCEPT !.bus.wram_addr =
                                       (@ \div 65536) * 65536 + data * 256 + (@ % 256)]
                   [] offset = \h2183 ->
                        [m1 EXCEPT !.bus.wram_addr = (data % 2) * 65536 + (@ % 65536)]
                   [] offset = \h4016 ->
                        IF data % 2 = 1
                        THEN [m1 EXCEPT !.bus.controller =
                                            [port \in 0..1 |-> initialize(@[port])]]
                        ELSE m1
                   [] offset = \h4200 ->
                        [m1 EXCEPT !.bus.joypad_enable = (data % 2 = 1),
                                   !.intr = set_nmi_enable(
                                                set_hv_irq_enable(@, (data \div 16) % 4),
                                                data \div 128 = 1)]
                   [] offset = \h4207 ->
                        [m1 EXCEPT !.bus.h_count = CountLow(@, data),
                                   !.intr.h_count = CountLow(m.bus.h_count, data)]
                   [] offset = \h4208 ->
                        [m1 EXCEPT !.bus.h_count = CountHigh(@, data),
                                   !.intr.h_count = CountHigh(m.bus.h_count, data)]
                   [] offset = \h4209 ->
                        [m1 EXCEPT !.bus.v_count = CountLow(@, data),
                                   !.intr.v_count = CountLow(m.bus.v_count, data)]
                   [] offset = \h420A ->
                        [m1 EXCEPT !.bus.v_count = CountHigh(@, data),
                                   !.intr.v_count = CountHigh(m.bus.v_count, data)]
                   [] offset = \h420B -> [m1 EXCEPT !.bus.gdma_enable = data,
                                                     !.obs.hdma_over_gdma = {}]
                   [] offset = \h420C -> [m1 EXCEPT !.bus.hdma_enable = data]
                   [] offset = \h420D ->
                        [m1 EXCEPT !.bus.access_cycle_for_memory2 =
                                        IF data % 2 = 1 THEN 6 ELSE 8]
                   [] offset \in \h4300..\h437F ->
                        [m1 EXCEPT !.bus.dma[(offset \div 16) % 16] =
                                        dma_write(@, offset % 16, data)]
                   [] OTHER -> m1
    IN  Arm(AccessElapse([m EXCEPT !.bus.open_bus = data],
                         BusWriteCycles(m.bus, bank, offset)))

\* #[derive(Default)] struct Controller
ControllerDefault == [data |-> [k \in 0..1 |-> 0], pos |-> 0]

\* impl Default for Bus
BusDefault ==
    [ access_cycle_for_memory2 |-> 8,
      dma |-> [ch \in Channels |-> DmaDefault],
      gdma_enable |-> 0, hdma_enable |-> 0, is_dma_active |-> FALSE,
      controller |-> [port \in 0..1 |-> ControllerDefault],
      joypad_enable |-> FALSE, auto_joypad_read_busy |-> 0,
      h_count |-> \h01FF, v_count |-> \h01FF,
      wram |-> [offset \in {} |-> 0],    \* the bytes of wram written so far
      wram_addr |-> 0,
      open_bus |-> 0 ]

-----------------------------------------------------------------------------
(* bus.rs: the GDMA engine *)

\* one pass of the `for i in 0..transfer_unit.len()` loop of gdma_exec, from index i on
RECURSIVE GdmaLoop(_, _, _, _, _)
GdmaLoop(m, ch, unit, a_step, i) ==
    IF i > Len(unit) THEN m
    ELSE
        LET m1 == EngineElapse(m, GDMA_BYTE_CLOCKS)
            d == m1.bus.dma[ch]
            a_bus == d.a_bus_bank * 65536 + d.a_bus_address
            b_bus == \h2100 + U8(d.b_bus_address + unit[i])
            src == IF params_BtoA(d.dma_params) THEN b_bus ELSE a_bus
            dst == IF params_BtoA(d.dma_params) THEN a_bus ELSE b_bus
            Write(r) == BusWrite(r.m, dst, r.data)
            Count(m2) ==
                [m2 EXCEPT
                   !.bus.dma[ch].a_bus_address = U16(@ + a_step),
                   !.bus.dma[ch].number_of_bytes_to_transfer = U16(@ - 1),
                   !.obs.bytes[ch] = @ + 1,
                   !.obs.gdma_after_hdma = IF ch \in m1.obs.hdma_over_gdma THEN @ + 1 ELSE @,
                   !.obs.order_ok = @ /\ (ch = trailing_zeros(m1.bus.gdma_enable))]
            Test(m3) ==
                IF m3.bus.dma[ch].number_of_bytes_to_transfer = 0
                THEN EngineElapse([m3 EXCEPT !.bus.gdma_enable = ClearBit(@, ch),
                                             !.obs.completed = @ \cup {ch}],
                                  GDMA_END_CLOCKS)
                ELSE GdmaLoop(m3, ch, unit, a_step, i + 1)
        IN  Test(Count(Write(BusRead(m1, src))))

\* Bus::gdma_exec
gdma_exec(m) ==
    IF m.bus.gdma_enable = 0 THEN m
    ELSE
        LET ch == trailing_zeros(m.bus.gdma_enable)
            m1 == [m EXCEPT !.bus.is_dma_active = TRUE]
            m2 == GdmaLoop(m1, ch, transfer_unit(m.bus.dma[ch]), a_step_of(m.bus.dma[ch]), 1)
        IN  [m2 EXCEPT !.bus.is_dma_active = FALSE]

-----------------------------------------------------------------------------
(* bus.rs: the HDMA engine *)

\* Bus::read_16
BusRead16(m, addr) ==
    LET Join(lo, hi) == [m |-> hi.m, data |-> hi.data * 256 + lo.data]
        High(lo) == Join(lo, BusRead(lo.m, (addr \div 65536) * 65536 + U16(addr + 1)))
    IN  High(BusRead(m, addr))

\* Dma::hdma_direct_address: the address returned and the channel after the call
hdma_direct_address(d, inc) ==
    [addr |-> d.a_bus_bank * 65536 + d.hdma_table_current_address,
     d |-> [d EXCEPT !.hdma_table_current_address = U16(@ + inc)]]

\* Dma::hdma_indirect_address
hdma_indirect_address(d, inc) ==
    [addr |-> d.indirect_hdma_bank * 65536 + d.number_of_bytes_to_transfer,
     d |-> [d EXCEPT !.number_of_bytes_to_transfer = U16(@ + inc)]]

\* HDMA takes channel ch (recorded if the channel's GDMA bit is set)
HdmaTakes(m, ch) ==
    [m EXCEPT !.obs.hdma_over_gdma = IF Bit(m.bus.gdma_enable, ch) = 1 THEN @ \cup {ch} ELSE @]

\* a table entry as the history records it: its line-counter byte, the lines it
\* has lasted and the lines on which the channel transferred
HdmaEntry(c) == [c |-> c, lines |-> 0, transfers |-> 0]

\* Bus::hdma_reload
hdma_reload(m, ch) ==
    LET d0 == [m.bus.dma[ch] EXCEPT !.hdma_table_current_address = m.bus.dma[ch].a_bus_address]
        a1 == hdma_direct_address(d0, 1)
        Indirect(m2, r2) ==
            EngineElapse([r2.m EXCEPT !.bus.dma[ch].number_of_bytes_to_transfer = r2.data],
                         HDMA_INDIRECT_CLOCKS)
        Address(m2, a2) ==
            IF params_hdma_indirect(m2.bus.dma[ch].dma_params)
            THEN Indirect(m2, BusRead16([m2 EXCEPT !.bus.dma[ch] = a2.d], a2.addr))
            ELSE m2
        Activate(m3) == [m3 EXCEPT !.bus.dma[ch].is_hdma_active = TRUE]
        Entry(m2) == Activate(Address(m2, hdma_direct_address(m2.bus.dma[ch], 2)))
        LineCounter(r1) ==
            IF r1.data = 0 THEN [r1.m EXCEPT !.bus.dma[ch].is_hdma_completed = TRUE,
                                             !.obs.reload_zero = @ \cup {ch}]
            ELSE Entry([r1.m EXCEPT !.bus.dma[ch].hdma_line_counter = r1.data,
                                    !.obs.entry[ch] = HdmaEntry(r1.data)])
    IN  LineCounter(BusRead([HdmaTakes(m, ch) EXCEPT !.bus.dma[ch] = a1.d], a1.addr))

\* the `for &offset in transfer_unit()` loop of hdma_exec, from index i on
RECURSIVE HdmaLoop(_, _, _, _)
HdmaLoop(m, ch, unit, i) ==
    IF i > Len(unit) THEN m
    ELSE
        LET d == m.bus.dma[ch]
            a == IF params_hdma_indirect(d.dma_params)
                 THEN hdma_indirect_address(d, 1) ELSE hdma_direct_address(d, 1)
            m1 == [m EXCEPT !.bus.dma[ch] = a.d]
            b_bus == \h2100 + U8(d.b_bus_address + unit[i])
            src == IF params_BtoA(d.dma_params) THEN b_bus ELSE a.addr
            dst == IF params_BtoA(d.dma_params) THEN a.addr ELSE b_bus
            Write(r) == BusWrite(r.m, dst, r.data)
            Bill(m2) ==
                EngineElapse(
                    [m2 EXCEPT !.obs.hdma_bytes[ch] = @ + 1,
                               !.obs.zero_bytes = IF ch \in m2.obs.reload_zero THEN @ + 1 ELSE @,
                               !.obs.late_bytes = IF ch \in m2.obs.ended THEN @ + 1 ELSE @],
                    HDMA_BYTE_CLOCKS)
        IN  HdmaLoop(Bill(Write(BusRead(m1, src))), ch, unit, i + 1)

\* the `if hdma_line_counter & 0x7F == 0` block of hdma_exec
HdmaNextEntry(m, ch) ==
    LET a1 == hdma_direct_address(m.bus.dma[ch], 1)
        Count(r) == [r.m EXCEPT !.bus.dma[ch].number_of_bytes_to_transfer = r.data]
        CountHi(r) == [r.m EXCEPT !.bus.dma[ch].number_of_bytes_to_transfer = r.data * 256]
        Read16(m1, a2) == BusRead16([m1 EXCEPT !.bus.dma[ch] = a2.d], a2.addr)
        Read8(m1, a3) == BusRead([m1 EXCEPT !.bus.dma[ch] = a3.d], a3.addr)
        Address(m1) ==
            IF ~params_hdma_indirect(m1.bus.dma[ch].dma_params) THEN m1
            ELSE IF m1.bus.dma[ch].hdma_line_counter # 0
            THEN EngineElapse(Count(Read16(m1, hdma_direct_address(m1.bus.dma[ch], 2))),
                              HDMA_INDIRECT_CLOCKS)
            ELSE EngineElapse(CountHi(Read8(m1, hdma_direct_address(m1.bus.dma[ch], 1))),
                              HDMA_BYTE_CLOCKS)
        Finish(m2) ==
            [m2 EXCEPT !.bus.dma[ch].is_hdma_completed =
                            IF m2.bus.dma[ch].hdma_line_counter = 0 THEN TRUE ELSE @,
                       !.bus.dma[ch].is_hdma_active = TRUE,
                       !.obs.ended = IF m2.bus.dma[ch].hdma_line_counter = 0
                                     THEN @ \cup {ch} ELSE @]
        LineCounter(r1) ==
            Finish(Address(EngineElapse(
                [r1.m EXCEPT !.bus.dma[ch].hdma_line_counter = r1.data,
                             !.obs.done[ch] = r1.m.obs.entry[ch],
                             !.obs.entry[ch] = HdmaEntry(r1.data)],
                HDMA_BYTE_CLOCKS)))
    IN  LineCounter(BusRead([m EXCEPT !.bus.dma[ch] = a1.d], a1.addr))

\* Bus::hdma_exec
hdma_exec(m, ch) ==
    LET Entry(m2) ==
            IF m2.bus.dma[ch].hdma_line_counter % 128 = 0 THEN HdmaNextEntry(m2, ch) ELSE m2
        Decrement(m1) ==
            [m1 EXCEPT !.bus.dma[ch].hdma_line_counter = U8(@ - 1 + 256),
                       !.bus.dma[ch].is_hdma_active =
                            (U8(m1.bus.dma[ch].hdma_line_counter - 1 + 256) >= 128),
                       !.obs.entry[ch].lines = IF m.obs.entry[ch].c # 0 THEN @ + 1 ELSE @,
                       !.obs.entry[ch].transfers =
                            IF m.obs.entry[ch].c # 0 /\ m.bus.dma[ch].is_hdma_active
                            THEN @ + 1 ELSE @]
    IN  Entry(Decrement(IF m.bus.dma[ch].is_hdma_active
                        THEN HdmaLoop(HdmaTakes(m, ch), ch, transfer_unit(m.bus.dma[ch]), 1)
                        ELSE m))

\* `for ch in 0..8 { if hdma_enable >> ch & 1 == 1 { hdma_reload(ch) } }`, from ch on
RECURSIVE HdmaReloadAll(_, _)
HdmaReloadAll(m, ch) ==
    IF ch > 7 THEN m
    ELSE HdmaReloadAll(IF Bit(m.bus.hdma_enable, ch) = 1 THEN hdma_reload(m, ch) ELSE m, ch + 1)

\* `for ch in 0..8 { if hdma_enable >> ch & 1 == 1 { hdma_exec(ch) } }`, from ch on
RECURSIVE HdmaExecAll(_, _)
HdmaExecAll(m, ch) ==
    IF ch > 7 THEN m
    ELSE HdmaExecAll(IF Bit(m.bus.hdma_enable, ch) = 1 THEN hdma_exec(m, ch) ELSE m, ch + 1)

\* a take that would return the flag without clearing it
TakeEventKeep(m, ev) ==
    [m EXCEPT !.obs.serviced[ev] = IF m.ppu[ev] THEN @ + 1 ELSE @]

\* Ppu::is_hdma_reload_triggered, is_hdma_transfer_triggered, is_auto_joypad_read:
\* each returns the flag and clears it
TakeEvent(m, ev) ==
    [m EXCEPT !.ppu[ev] = FALSE,
              !.obs.serviced[ev] = IF m.ppu[ev] THEN @ + 1 ELSE @]

\* Bus::hdma_reload_and_exec
hdma_reload_and_exec(m) ==
    LET Clear(m1) ==
            [m1 EXCEPT !.bus.dma = [ch \in Channels |->
                           [@[ch] EXCEPT !.is_hdma_active = FALSE,
                                         !.is_hdma_completed = FALSE]],
                       !.obs.reload_zero = {},
                       !.obs.ended = {},
                       !.obs.entry = [ch \in Channels |-> HdmaEntry(0)]]
        Setup(m2) == IF m2.bus.hdma_enable # 0 THEN EngineElapse(m2, HDMA_SETUP_CLOCKS) ELSE m2
        Reload(m0) ==
            IF m0.ppu.is_hdma_reload
            THEN HdmaReloadAll(Setup(Clear(TakeEvent(m0, "is_hdma_reload"))), 0)
            ELSE TakeEvent(m0, "is_hdma_reload")
        Exec(triggered, m5) ==
            IF /\ triggered
               /\ m5.bus.hdma_enable # 0
               /\ \E ch \in Channels : ~m5.bus.dma[ch].is_hdma_completed
            THEN HdmaExecAll(EngineElapse(m5, HDMA_SETUP_CLOCKS), 0)
            ELSE m5
        Transfer(m4) == Exec(m4.ppu.is_hdma_transfer, TakeEvent(m4, "is_hdma_transfer"))
        Done(m6) == [m6 EXCEPT !.bus.is_dma_active = FALSE]
    IN  Done(Transfer(Reload([m EXCEPT !.bus.is_dma_active = TRUE])))

\* the bit each Key sets in the match of Bus::set_keys
KeyBits ==
    << [key |-> "B", bit |-> 15], [key |-> "Y", bit |-> 14], [key |-> "Select", bit |-> 13],
       [key |-> "Start", bit |-> 12], [key |-> "Up", bit |-> 11], [key |-> "Down", bit |-> 10],
       [key |-> "Left", bit |-> 9], [key |-> "Right", bit |-> 8], [key |-> "A", bit |-> 7],
       [key |-> "X", bit |-> 6], [key |-> "L", bit |-> 5], [key |-> "R", bit |-> 4] >>

\* the word the inner loop of Bus::set_keys builds from the keys held on one pad
KeyWord(held) ==
    LET Acc[i \in 0..Len(KeyBits)] ==
            IF i = 0 THEN 0
            ELSE Acc[i - 1] + (IF KeyBits[i].key \in held THEN 2 ^ KeyBits[i].bit ELSE 0)
    IN  Acc[Len(KeyBits)]

\* Bus::set_keys: keys[i] goes to controller[i % 2].data[i / 2]
set_keys(b, keys) ==
    [b EXCEPT !.controller =
        [port \in 0..1 |->
            [@[port] EXCEPT !.data = [k \in 0..1 |-> KeyWord(keys[2 * k + port])]]]]

\* the `for _ in 0..16 { self.controller[port].read(); }` loop, n reads left
RECURSIVE ControllerReads(_, _)
ControllerReads(c, n) == IF n = 0 THEN c ELSE ControllerReads(controller_read(c), n - 1)

\* Bus::auto_joypad_read: initialize() and 16 reads of each port
auto_joypad_read(b) ==
    [b EXCEPT !.controller =
        [port \in 0..1 |-> ControllerReads(initialize(@[port]), 16)]]

\* the words $4218..$421F read back
JoyWords(b) == [port \in 0..1 |-> b.controller[port].data]

\* Bus::tick
bus_tick(m) ==
    LET m1 == TakeEvent(m, "auto_joypad_read")
        m2 == IF m.ppu.auto_joypad_read /\ m.bus.joypad_enable
              THEN [m1 EXCEPT !.bus = auto_joypad_read(
                                   [@ EXCEPT !.auto_joypad_read_busy =
                                                  m.now + JOYPAD_BUSY_CLOCKS]),
                              !.obs.captured = JoyWords(m.bus),
                              !.obs.auto_reads = @ + 1]
              ELSE m1
    IN  gdma_exec(hdma_reload_and_exec(m2))

-----------------------------------------------------------------------------
(* ppu.rs: the dot counter and the events it raises *)

\* the flag `ev` is set by the PPU (counted even if it was still set)
RaiseEvent(m, ev) == [m EXCEPT !.ppu[ev] = TRUE, !.obs.raised[ev] = @ + 1]

\* the H/V IRQ match with mode 3 taken as mode 1 (any line)
HvIrqMatch_AnyLine(i, x, y) ==
    CASE i.hv_irq_enable \in {1, 3} -> x = i.h_count
      [] i.hv_irq_enable = 2 -> x = 0 /\ y = i.v_count
      [] OTHER -> FALSE

\* the H/V IRQ match at the end of the loop body of Ppu::tick
HvIrqMatch(i, x, y) ==
    CASE i.hv_irq_enable = 1 -> x = i.h_count
      [] i.hv_irq_enable = 2 -> x = 0 /\ y = i.v_count
      [] i.hv_irq_enable = 3 -> x = i.h_count /\ y = i.v_count
      [] OTHER -> FALSE

\* set_nmi_flag(true) would set nmi_raise; an NMI is latched and not yet serviced
NmiEdge(i) == ~(i.nmi_flag /\ i.nmi_enable) /\ i.nmi_enable
NmiPending(i) == i.nmi_raise \/ i.nmi

\* a line of 339 dots
DotAfter_ShortLine(x, y) ==
    LET wrapx == x + 1 = DOTS_PER_LINE - 1
        wrapy == wrapx /\ y + 1 = LINES_PER_FRAME
    IN  [wrapx |-> wrapx, wrapy |-> wrapy,
         x |-> IF wrapx THEN 0 ELSE x + 1,
         y |-> IF wrapy THEN 0 ELSE IF wrapx THEN y + 1 ELSE y]

\* `self.x += 1; if self.x == 340 { self.x = 0; self.y += 1; if self.y == 262
\* { self.y = 0; ... } }`: the dot that follows (x, y), and whether the line and
\* the frame wrapped
DotAfter(x, y) ==
    LET wrapx == x + 1 = DOTS_PER_LINE
        wrapy == wrapx /\ y + 1 = LINES_PER_FRAME
    IN  [wrapx |-> wrapx, wrapy |-> wrapy,
         x |-> IF wrapx THEN 0 ELSE x + 1,
         y |-> IF wrapy THEN 0 ELSE IF wrapx THEN y + 1 ELSE y]

\* one pass of the loop body of Ppu::tick (after the `counter + 4 > now` test)
PpuDot(m) ==
    LET wrapx == DotAfter(m.ppu.x, m.ppu.y).wrapx
        wrapy == DotAfter(m.ppu.x, m.ppu.y).wrapy
        x == DotAfter(m.ppu.x, m.ppu.y).x
        y == DotAfter(m.ppu.x, m.ppu.y).y
        m1 == [m EXCEPT !.ppu.counter = @ + PPU_DOT_CLOCKS,
                        !.obs.dots = IF wrapy THEN 0 ELSE @ + 1,
                        !.obs.frames = IF wrapy
                                       THEN Append(@, [counter |-> m.ppu.counter + PPU_DOT_CLOCKS,
                                                       steps |-> m.obs.dots + 1])
                                       ELSE @,
                        !.ppu.x = x,
                        !.ppu.y = y,
                        !.ppu.is_vblank = IF wrapy THEN FALSE
                                          ELSE IF wrapx /\ y = VBLANK_LINE THEN TRUE ELSE @,
                        !.ppu.frame_number = IF wrapy THEN @ + 1 ELSE @,
                        !.intr = IF wrapy THEN set_nmi_flag(@, FALSE) ELSE @]
        m2 == IF x = 0 /\ y = VBLANK_LINE
              THEN [m1 EXCEPT !.intr = set_nmi_flag(@, TRUE),
                              !.obs.rdnmi = <<>>,
                              !.obs.vblank_entries = @ + 1,
                              !.obs.vblank_nmi = IF NmiEdge(m1.intr) THEN @ + 1 ELSE @,
                              !.obs.merged = IF NmiEdge(m1.intr) /\ m1.intr.nmi_raise
                                             THEN @ + 1 ELSE @,
                              !.obs.after_edge = IF NmiEdge(m1.intr) /\ ~NmiPending(m1.intr)
                                                 THEN 0 ELSE @]
              ELSE m1
        m3 == [m2 EXCEPT !.ppu.is_hblank = IF x = HBLANK_START_DOT THEN TRUE
                                           ELSE IF x = 1 THEN FALSE ELSE @,
                         !.obs.flag_rise = IF ~m.intr.nmi_flag /\ m2.intr.nmi_flag
                                           THEN @ \cup {<<x, y>>} ELSE @,
                         !.obs.vblank_set = IF ~m.ppu.is_vblank /\ m2.ppu.is_vblank
                                            THEN @ \cup {<<x, y>>} ELSE @,
                         !.obs.vblank_clear = IF m.ppu.is_vblank /\ ~m2.ppu.is_vblank
                                              THEN @ \cup {<<x, y>>} ELSE @]
        m4 == IF x = HDMA_RELOAD_DOT /\ y = 0 THEN RaiseEvent(m3, "is_hdma_reload") ELSE m3
        m5 == IF x = JOYPAD_DOT /\ y = VBLANK_LINE
              THEN [RaiseEvent(m4, "auto_joypad_read") EXCEPT
                        !.obs.joypad_dot = m1.ppu.counter]
              ELSE m4
        m6 == IF x = DRAM_REFRESH_DOT
              THEN [m5 EXCEPT !.now = @ + DRAM_REFRESH_CLOCKS] ELSE m5
        m7 == IF x = HDMA_TRANSFER_DOT /\ y \in 0..HDMA_LAST_LINE
              THEN RaiseEvent(m6, "is_hdma_transfer") ELSE m6
        Irq(n) ==
            IF HvIrqMatch(n.intr, x, y)
            THEN [n EXCEPT !.intr = set_irq(@, TRUE),
                           !.obs.timeup = <<>>,
                           !.obs.irq_raises = @ + 1,
                           !.obs.irq_frame = n.ppu.frame_number,
                           !.obs.irq_dot = <<x, y>>,
                           !.obs.irq_ok =
                               @ /\ (n.intr.hv_irq_enable = 3 =>
                                        /\ n.obs.irq_frame # n.ppu.frame_number
                                        /\ x = n.intr.h_count /\ y = n.intr.v_count)]
            ELSE n
    IN  Irq(m7)

\* Ppu::tick
RECURSIVE ppu_tick(_)
ppu_tick(m) == IF m.ppu.counter + PPU_DOT_CLOCKS > m.now THEN m ELSE ppu_tick(PpuDot(m))

-----------------------------------------------------------------------------
(* spc.rs: the APU's catch-up with the master clock *)

\* [q, r] with x * n = q * SPC_RATE_DEN + r and r < SPC_RATE_DEN, by binary
\* multiplication (the product itself does not fit the checker's integers)
RECURSIVE MulDivRate(_, _)
MulDivRate(x, n) ==
    IF n = 0 THEN [q |-> 0, r |-> 0]
    ELSE LET h == MulDivRate(x, n \div 2)
             r2 == 2 * h.r + (IF n % 2 = 1 THEN x % SPC_RATE_DEN ELSE 0)
             q2 == 2 * h.q + (IF n % 2 = 1 THEN x \div SPC_RATE_DEN ELSE 0)
         IN  [q |-> q2 + r2 \div SPC_RATE_DEN, r |-> r2 % SPC_RATE_DEN]

\* ctx.now() * 102400 / 2147727
clock_from_master(t) == MulDivRate(t, SPC_RATE_NUM).q

\* the opcodes of the SPC700 that the model decodes
SPC_NOP == \h00
SPC_STA_DP == \hC4
SPC_LDA_DP == \hE4
SPC_SLEEP == \hEF
SPC_STOP == \hFF

\* IORegisters::default: both waitstates are 1 (no modelled instruction writes $F0)
SPC_WAITSTATE == 1

\* the instruction at the APU's program counter: the next one of the program the
\* guest uploaded, and NOP from its end on; <<opcode, operand>>
SpcFetch(sp) == IF sp.ip <= Len(guest.apu) THEN guest.apu[sp.ip] ELSE <<SPC_NOP, 0>>

\* the indices for which IORegisters::read has an arm; any other one reaches
\* `_ => unreachable!(..)`
IoReadArms == {2, 3} \cup (4..7) \cup {8, 9} \cup (13..15)

\* IORegisters::read panics for the index
IoReadPanics(index) == index \notin IoReadArms

\* Spc::read_8 of a direct-page address (P = 0): the clocks billed, and the panic
\* IORegisters::read ends in for an I/O address it has no arm for
SpcRead8(sp, addr) ==
    IF addr \in \h00F0..\h00FF
    THEN [sp EXCEPT !.counter = @ + SPC_WAITSTATE,
                    !.panic = IF IoReadPanics(addr - \h00F0) THEN "io_read" ELSE @]
    ELSE [sp EXCEPT !.counter = @ + SPC_WAITSTATE]

\* Spc::write_8 of a direct-page address: IORegisters::write has an arm for each
\* of the 16 indices
SpcWrite8(sp, addr) == [sp EXCEPT !.counter = @ + SPC_WAITSTATE]

\* impl Default for Timer
TimerDefault == [is_enabled |-> FALSE, counter |-> \hFF, divider |-> 0, output |-> 0]

\* a timer whose internal counter runs on after it matched the divider
timer_tick_NoReset(t) ==
    IF t.is_enabled
    THEN LET counter == (t.counter + 1) % 256
         IN  IF counter = t.divider
             THEN [t EXCEPT !.counter = counter, !.output = (@ + 1) % 16]
             ELSE [t EXCEPT !.counter = counter]
    ELSE t

\* Timer::tick
timer_tick(t) ==
    IF t.is_enabled
    THEN LET counter == (t.counter + 1) % 256
         IN  IF counter = t.divider
             THEN [t EXCEPT !.counter = 0, !.output = (@ + 1) % 16]
             ELSE [t EXCEPT !.counter = counter]
    ELSE t

\* n calls of Timer::tick
RECURSIVE TimerTicks(_, _)
TimerTicks(t, n) == IF n = 0 THEN t ELSE TimerTicks(timer_tick(t), n - 1)

\* the SPC clocks per step of timers 0 and 1, and of timer 2
TIMER_01_CLOCKS == 128
TIMER_2_CLOCKS == 16

\* IORegisters::tick_timer
tick_timer(sp, elapsed) ==
    LET c01 == sp.timer_counter_01 + elapsed
        c2 == sp.timer_counter_2 + elapsed
    IN  [sp EXCEPT !.timer_counter_01 = c01 % TIMER_01_CLOCKS,
                   !.timer_counter_2 = c2 % TIMER_2_CLOCKS,
                   !.timer = [i \in 0..2 |->
                                 TimerTicks(@[i], IF i < 2 THEN c01 \div TIMER_01_CLOCKS
                                                  ELSE c2 \div TIMER_2_CLOCKS)]]

\* the `for i in 0..2 { if data & (1 << (i + 4)) != 0 { .. } }` loop of the
\* index 1 arm of IORegisters::write, from round i on
RECURSIVE ClearPorts(_, _, _)
ClearPorts(cpu_in, data, i) ==
    IF i = 2 THEN cpu_in
    ELSE ClearPorts(IF (data \div 2 ^ (i + 4)) % 2 = 1
                    THEN [cpu_in EXCEPT ![i] = 0, ![i + 1] = 0] ELSE cpu_in,
                    data, i + 1)

\* a mailbox whose two directions share their bytes
io_write_Shared(sp, index, data) ==
    IF index \in 4..7 THEN [sp EXCEPT !.cpu_in[index - 4] = data] ELSE sp

\* IORegisters::write: the control register, the mailbox and the timer dividers
io_write(sp, index, data) ==
    CASE index = 1 ->
            [sp EXCEPT !.timer = [i \in 0..2 |->
                                     [@[i] EXCEPT !.is_enabled = (data \div 2 ^ i) % 2 = 1]],
                       !.cpu_in = ClearPorts(@, data, 0)]
      [] index \in 4..7 -> [sp EXCEPT !.cpu_out[index - 4] = data]
      [] index \in 10..12 -> [sp EXCEPT !.timer[index - 10].divider = data]
      [] OTHER -> sp

\* IORegisters::read: the mailbox and the timer outputs, [spc |-> .., data |-> ..]
io_read(sp, index) ==
    CASE index \in 4..7 -> [spc |-> sp, data |-> sp.cpu_in[index - 4]]
      [] index \in 13..15 ->
            [spc |-> [sp EXCEPT !.timer[index - 13].output = 0],
             data |-> sp.timer[index - 13].output]

\* what follows a panic is not executed
SpcThen(sp, rest) == IF sp.panic # "none" THEN sp ELSE rest

\* Spc::execute_instruction for the modelled opcodes (the accumulator and the
\* flags, which no modelled instruction depends on, are left out): fetch_8 of the
\* opcode, then the `match op`
execute_instruction(sp) ==
    LET op == SpcFetch(sp)[1]
        operand == SpcFetch(sp)[2]
        fetched == [sp EXCEPT !.counter = @ + SPC_WAITSTATE, !.ip = @ + 1]
        \* fetch_8 of the direct-page operand
        operand_fetched == [fetched EXCEPT !.counter = @ + SPC_WAITSTATE]
        \* Spc::lda: get_warp_address, read_8, increment_counter
        lda == LET r == SpcRead8(operand_fetched, operand)
               IN  SpcThen(r, [r EXCEPT !.counter = @ + SPC_WAITSTATE])
        \* Spc::sta: increment_counter, get_warp_address, write_8
        sta == SpcWrite8([operand_fetched EXCEPT !.counter = @ + SPC_WAITSTATE], operand)
    IN  CASE op = SPC_NOP -> [fetched EXCEPT !.counter = @ + SPC_WAITSTATE]
          [] op = SPC_LDA_DP -> lda
          [] op = SPC_STA_DP -> sta
          [] op = SPC_SLEEP -> [fetched EXCEPT !.counter = @ + SPC_WAITSTATE,
                                               !.sleep = TRUE, !.panic = "sleep"]
          [] op = SPC_STOP -> [fetched EXCEPT !.counter = @ + SPC_WAITSTATE,
                                              !.stop = TRUE, !.panic = "stop"]

\* the `while self.counter < clock_from_master` loop
RECURSIVE SpcLoop(_, _)
SpcLoop(sp, target) ==
    IF sp.panic = "none" /\ sp.counter < target
    THEN SpcLoop(execute_instruction(sp), target) ELSE sp

\* a tick that executes at most one instruction
spc_tick_OneInstruction(sp, t) ==
    LET Rest(r) == tick_timer([r EXCEPT !.prev_counter = r.counter,
                                        !.dsp_counter =
                                            (@ + (r.counter - sp.prev_counter)) % 32],
                              r.counter - sp.prev_counter)
        After(r) == SpcThen(r, Rest(r))
    IN  After(IF sp.counter < clock_from_master(t) THEN execute_instruction(sp) ELSE sp)

\* Spc::tick; a panic leaves the loop and the function
spc_tick(sp, t) ==
    LET Rest(r) == tick_timer([r EXCEPT !.prev_counter = r.counter,
                                        !.dsp_counter =
                                            (@ + (r.counter - sp.prev_counter)) % 32],
                              r.counter - sp.prev_counter)
        After(r) == SpcThen(r, Rest(r))
    IN  After(SpcLoop(sp, clock_from_master(t)))

-----------------------------------------------------------------------------
(* cpu.rs: fetch, stack, interrupt entry, the modelled opcodes *)

\* impl Default for Status
StatusDefault ==
    [c |-> FALSE, z |-> FALSE, i |-> TRUE, d |-> FALSE,
     x |-> TRUE, m |-> TRUE, v |-> FALSE, n |-> FALSE]

\* impl Default for Cpu (the registers the modelled opcodes use)
CpuDefault ==
    [a |-> 0, x |-> 0, y |-> 0, pc |-> 0, s |-> \h01FF, pb |-> 0, db |-> 0, e |-> TRUE,
     p |-> StatusDefault,
     halt |-> FALSE, stop |-> FALSE, prev_counter |-> 0]

B2N(b) == IF b THEN 1 ELSE 0

\* impl Into<u8> for Status
StatusByte(p) ==
    B2N(p.c) + 2 * B2N(p.z) + 4 * B2N(p.i) + 8 * B2N(p.d)
      + 16 * B2N(p.x) + 32 * B2N(p.m) + 64 * B2N(p.v) + 128 * B2N(p.n)

\* ctx.elapse(clock) called by the CPU
CpuElapse(m, clock) == [m EXCEPT !.now = @ + clock]

\* Cpu::get_pc24
get_pc24(c) == c.pb * 65536 + c.pc

\* the guest's program ROM: bank 0x00, offsets 0x8000..0xFFFF
InProgramRom(addr) == addr \in \h008000..\h00FFFF

\* Cpu::fetch_8; a byte fetched from program ROM is the byte `rom` of the
\* instruction the guest placed there, any other byte is what Bus::read returns
fetch_8(m, rom) ==
    LET data(r) == IF InProgramRom(get_pc24(m.cpu)) THEN rom ELSE r.data
        Fetched(r) ==
            [m |-> [r.m EXCEPT !.cpu.pc = U16(@ + 1), !.bus.open_bus = data(r)],
             data |-> data(r)]
    IN  Fetched(BusRead(m, get_pc24(m.cpu)))

\* Cpu::fetch_16
fetch_16(m, rom_lo, rom_hi) ==
    LET Join(lo, hi) == [m |-> hi.m, data |-> hi.data * 256 + lo.data]
        High(lo) == Join(lo, fetch_8(lo.m, rom_hi))
    IN  High(fetch_8(m, rom_lo))

\* one move of the stack pointer: S before it, the address accessed, S after it
StackMove(op, c, addr, to) == [op |-> op, e |-> c.e, from |-> c.s, addr |-> addr, to |-> to]

\* a push that always decrements the whole 16-bit S
push_8_NoWrap(m, data) ==
    LET m1 == BusWrite(m, m.cpu.s, data)
    IN  [m1 EXCEPT !.cpu.s = U16(@ - 1 + 65536),
                   !.obs.pushed = Append(@, data),
                   !.obs.stack = @ \cup {StackMove("push", m.cpu, m.cpu.s,
                                                   U16(m.cpu.s - 1 + 65536))}]

\* Cpu::push_8
push_8(m, data) ==
    LET m1 == BusWrite(m, m.cpu.s, data)
        to == IF m.cpu.e THEN (m.cpu.s \div 256) * 256 + U8((m.cpu.s % 256) - 1 + 256)
              ELSE U16(m.cpu.s - 1 + 65536)
    IN  [m1 EXCEPT !.cpu.s = to,
                   !.obs.pushed = Append(@, data),
                   !.obs.stack = @ \cup {StackMove("push", m.cpu, m.cpu.s, to)}]

\* Cpu::push_16
push_16(m, data) == push_8(push_8(m, data \div 256), data % 256)

\* Cpu::pop_8: [m |-> machine after the pull, data |-> byte pulled]
pop_8(m) ==
    LET to == IF m.cpu.e THEN (m.cpu.s \div 256) * 256 + U8((m.cpu.s % 256) + 1)
              ELSE U16(m.cpu.s + 1)
        Pull(m1) == BusRead(m1, m1.cpu.s)
    IN  Pull([m EXCEPT !.cpu.s = to,
                       !.obs.stack = @ \cup {StackMove("pull", m.cpu, to, to)}])

\* Cpu::pop_16
pop_16(m) ==
    LET Join(lo, hi) == [m |-> hi.m, data |-> hi.data * 256 + lo.data]
        High(lo) == Join(lo, pop_8(lo.m))
    IN  High(pop_8(m))

\* impl From<u8> for Status
StatusFromByte(data) ==
    [c |-> Bit(data, 0) = 1, z |-> Bit(data, 1) = 1, i |-> Bit(data, 2) = 1,
     d |-> Bit(data, 3) = 1, x |-> Bit(data, 4) = 1, m |-> Bit(data, 5) = 1,
     v |-> Bit(data, 6) = 1, n |-> Bit(data, 7) = 1]

\* Cpu::get_interrupt_vector for Exeption::Nmi and Exeption::Irq
get_interrupt_vector(c, exception) ==
    CASE exception = "Nmi" -> IF c.e THEN \hFFFA ELSE \hFFEA
      [] exception = "Irq" -> IF c.e THEN \hFFFE ELSE \hFFEE

\* Cpu::exeption for Exeption::Nmi and Exeption::Irq
exeption(m, exception) ==
    LET m0 == [m EXCEPT !.cpu.halt = FALSE,
                        !.cpu.p.x = IF m.cpu.e THEN FALSE ELSE @,
                        !.obs.pushed = <<>>,
                        !.obs.entry_cpu = m.cpu]
        PushPB(m1) == IF ~m1.cpu.e THEN push_8(m1, m1.cpu.pb) ELSE m1
        PushPC(m2) == push_16(m2, m2.cpu.pc)
        PushP(m3) == push_8(m3, StatusByte(m3.cpu.p))
        SetI(m4) == [m4 EXCEPT !.cpu.p.i = TRUE, !.cpu.pb = 0]
        ReadVector(m5) == BusRead16(m5, get_interrupt_vector(m5.cpu, exception))
        LoadPC(v) == [v.m EXCEPT !.cpu.pc = v.data]
    IN  LoadPC(ReadVector(SetI(PushP(PushPC(PushPB(m0))))))

\* the opcodes of the 65C816 that the model decodes
OP_NOP == \hEA
OP_WAI == \hCB
OP_STP == \hDB
OP_JMP_ABS == \h4C
OP_STA_ABS == \h8D
OP_LDA_ABS == \hAD
OP_SED == \hF8
OP_CLD == \hD8
OP_SEI == \h78
OP_CLI == \h58
OP_SEC == \h38
OP_CLC == \h18
OP_XCE == \hFB
OP_TXS == \h9A
OP_PHA == \h48
OP_PLA == \h68
OP_PHP == \h08
OP_PLP == \h28
OP_REP == \hC2
OP_SEP == \hE2
OP_RTI == \h40
OP_MVP == \h44
OP_MVN == \h54
ModelledOpcodes ==
    {OP_NOP, OP_WAI, OP_STP, OP_JMP_ABS, OP_STA_ABS, OP_LDA_ABS,
     OP_SED, OP_CLD, OP_SEI, OP_CLI, OP_SEC, OP_CLC, OP_XCE,
     OP_TXS, OP_PHA, OP_PLA, OP_PHP, OP_PLP, OP_REP, OP_SEP, OP_RTI, OP_MVP, OP_MVN}

\* Cpu::set_e
set_e(c, data) ==
    IF data THEN [c EXCEPT !.e = TRUE, !.p.m = TRUE, !.p.x = TRUE,
                           !.x = @ % 256,
                           !.s = \h0100 + (@ % 256)]
    ELSE [c EXCEPT !.e = FALSE]

\* get_warp_address(AddressingMode::Absolute): pb << 16 | fetch_16
AbsoluteAddress(f) == f.m.cpu.pb * 65536 + f.data

\* Cpu::sta with AddressingMode::Absolute
sta_abs(m, rom) ==
    LET High(f, w1) ==
            IF f.m.cpu.e \/ f.m.cpu.p.m THEN w1
            ELSE BusWrite(w1, AbsoluteAddress(f) + 1, f.m.cpu.a \div 256)
        Low(f) == High(f, BusWrite(f.m, AbsoluteAddress(f), f.m.cpu.a % 256))
    IN  Low(fetch_16(m, rom[2], rom[3]))

\* Cpu::lda with AddressingMode::Absolute
lda_abs(m, rom) ==
    LET Load16(r1, r2) ==
            [r2.m EXCEPT !.cpu.a = r2.data * 256 + r1.data,
                         !.cpu.p.n = r2.data >= 128,
                         !.cpu.p.z = (r2.data = 0 /\ r1.data = 0)]
        Load(f, r1) ==
            IF f.m.cpu.e \/ f.m.cpu.p.m
            THEN [r1.m EXCEPT !.cpu.a = (@ \div 256) * 256 + r1.data,
                              !.cpu.p.n = r1.data >= 128, !.cpu.p.z = r1.data = 0]
            ELSE Load16(r1, BusRead(r1.m, AbsoluteAddress(f) + 1))
        Low(f) == Load(f, BusRead(f.m, AbsoluteAddress(f)))
    IN  Low(fetch_16(m, rom[2], rom[3]))

\* Cpu::jmp_abs
jmp_abs(m, rom) ==
    LET Jump(f) == [f.m EXCEPT !.cpu.pc = f.data] IN Jump(fetch_16(m, rom[2], rom[3]))

\* Cpu::txs
txs(m) ==
    [CpuElapse(m, CPU_CYCLE) EXCEPT
        !.cpu.s = IF m.cpu.e THEN (@ \div 256) * 256 + (m.cpu.x % 256) ELSE m.cpu.x]

\* Cpu::pha
pha(m) ==
    IF m.cpu.e \/ m.cpu.p.m THEN push_8(CpuElapse(m, CPU_CYCLE), m.cpu.a % 256)
    ELSE push_16(CpuElapse(m, CPU_CYCLE), m.cpu.a)

\* Cpu::pla
pla(m) ==
    LET Load8(r) == [r.m EXCEPT !.cpu.a = (@ \div 256) * 256 + r.data,
                                !.cpu.p.n = r.data >= 128, !.cpu.p.z = r.data = 0]
        Load16(r) == [r.m EXCEPT !.cpu.a = r.data,
                                 !.cpu.p.n = r.data >= 32768, !.cpu.p.z = r.data = 0]
    IN  IF m.cpu.e \/ m.cpu.p.m THEN Load8(pop_8(CpuElapse(m, CPU_CYCLE * 2)))
        ELSE Load16(pop_16(CpuElapse(m, CPU_CYCLE * 2)))

\* Cpu::php and Cpu::plp
php(m) == push_8(CpuElapse(m, CPU_CYCLE), StatusByte(m.cpu.p))
plp(m) ==
    LET Load(r) == [r.m EXCEPT !.cpu.p = StatusFromByte(r.data)]
    IN  Load(pop_8(CpuElapse(m, CPU_CYCLE * 2)))

\* p & !data and p | data, bit by bit
MaskOut(p, data) == [f \in DOMAIN p |-> p[f] /\ ~StatusFromByte(data)[f]]
MaskIn(p, data) == [f \in DOMAIN p |-> p[f] \/ StatusFromByte(data)[f]]

\* Cpu::rep and Cpu::sep
rep(m, rom) ==
    LET Clear(f) == [CpuElapse(f.m, CPU_CYCLE) EXCEPT !.cpu.p = MaskOut(@, f.data)]
    IN  Clear(fetch_8(m, rom[2]))
sep(m, rom) ==
    LET Set(f) == [CpuElapse(f.m, CPU_CYCLE) EXCEPT !.cpu.p = MaskIn(@, f.data)]
    IN  Set(fetch_8(m, rom[2]))

\* the `match opcode` of excecute_instruction_ for the modelled opcodes
\* Cpu::rti
rti(m) ==
    LET Bank(r) == IF r.m.cpu.e THEN r.m
                   ELSE CpuElapse([r.m EXCEPT !.cpu.pb = r.data], CPU_CYCLE)
        LoadBank(m3) == IF m3.cpu.e THEN m3 ELSE Bank(pop_8(m3))
        LoadPC(r) == LoadBank([r.m EXCEPT !.cpu.pc = r.data])
        LoadP(r) == LoadPC(pop_16([r.m EXCEPT !.cpu.p = StatusFromByte(r.data)]))
    IN  LoadP(pop_8(CpuElapse(m, CPU_CYCLE)))

\* Cpu::is_xy_register_8bit
is_xy_register_8bit(c) == c.e \/ c.p.x

\* the body Cpu::mvp and Cpu::mvn share: the two bank fetches, the byte read at
\* src_bank:X and written to dst_bank:Y, X and Y stepped by `step` in their
\* width, A decremented, and PC moved back over the instruction unless A is $FFFF
block_move(m, rom, step) ==
    LET Index(c, v) == IF is_xy_register_8bit(c) THEN U8((v % 256) + 256 + step)
                       ELSE U16(v + 65536 + step)
        Step(m3) ==
            [CpuElapse(m3, CPU_CYCLE * 2) EXCEPT
                !.cpu.x = Index(m3.cpu, @),
                !.cpu.y = Index(m3.cpu, @),
                !.cpu.a = U16(@ + 65535),
                !.cpu.pc = IF U16(m3.cpu.a + 65535) # \hFFFF THEN U16(@ + 65533) ELSE @,
                !.obs.moved = @ + 1,
                !.obs.move_n = IF m.obs.moved = 0 THEN m.cpu.a ELSE @]
        Write(dst, r) == Step(BusWrite(r.m, dst.data * 65536 + r.m.cpu.y, r.data))
        Read(dst, src) ==
            Write(dst, BusRead([src.m EXCEPT !.cpu.db = dst.data],
                               src.data * 65536 + src.m.cpu.x))
        Source(dst) == Read(dst, fetch_8(dst.m, rom[3]))
    IN  Source(fetch_8(m, rom[2]))

\* Cpu::mvp
mvp(m, rom) == block_move(m, rom, -1)

\* a block move that does not come back for the next byte
mvn_NoRewind(m, rom) ==
    [block_move(m, rom, 1) EXCEPT !.cpu.pc = fetch_8(fetch_8(m, rom[2]).m, rom[3]).m.cpu.pc]

\* Cpu::mvn
mvn(m, rom) == block_move(m, rom, 1)

Dispatch(m, opcode, rom) ==
    CASE opcode = OP_NOP -> CpuElapse(m, CPU_CYCLE)
      [] opcode = OP_WAI -> [CpuElapse(m, CPU_CYCLE * 2) EXCEPT !.cpu.halt = TRUE]
      [] opcode = OP_STP -> [CpuElapse(m, CPU_CYCLE) EXCEPT !.cpu.stop = TRUE]
      [] opcode = OP_JMP_ABS -> jmp_abs(m, rom)
      [] opcode = OP_STA_ABS -> sta_abs(m, rom)
      [] opcode = OP_LDA_ABS -> lda_abs(m, rom)
      [] opcode = OP_SED -> [CpuElapse(m, CPU_CYCLE) EXCEPT !.cpu.p.d = TRUE]
      [] opcode = OP_CLD -> [CpuElapse(m, CPU_CYCLE) EXCEPT !.cpu.p.d = FALSE]
      [] opcode = OP_SEI -> [CpuElapse(m, CPU_CYCLE) EXCEPT !.cpu.p.i = TRUE]
      [] opcode = OP_CLI -> [CpuElapse(m, CPU_CYCLE) EXCEPT !.cpu.p.i = FALSE]
      [] opcode = OP_SEC -> [CpuElapse(m, CPU_CYCLE) EXCEPT !.cpu.p.c = TRUE]
      [] opcode = OP_CLC -> [CpuElapse(m, CPU_CYCLE) EXCEPT !.cpu.p.c = FALSE]
      [] opcode = OP_TXS -> txs(m)
      [] opcode = OP_PHA -> pha(m)
      [] opcode = OP_PLA -> pla(m)
      [] opcode = OP_PHP -> php(m)
      [] opcode = OP_PLP -> plp(m)
      [] opcode = OP_REP -> rep(m, rom)
      [] opcode = OP_SEP -> sep(m, rom)
      [] opcode = OP_RTI -> rti(m)
      [] opcode = OP_MVP -> mvp(m, rom)
      [] opcode = OP_MVN -> mvn(m, rom)
      [] opcode = OP_XCE ->
            [CpuElapse(m, CPU_CYCLE) EXCEPT
                !.cpu = set_e([@ EXCEPT !.p.c = m.cpu.e], m.cpu.p.c)]

\* the opcode fetch and dispatch at the end of excecute_instruction_
FetchAndDispatch(m, rom) ==
    LET Decode(f) ==
            Dispatch([f.m EXCEPT !.obs.after_edge = IF NmiPending(f.m.intr) THEN @ + 1 ELSE @],
                     f.data, rom)
    IN  Decode(fetch_8(m, rom[1]))

\* the opcode the CPU is about to fetch
NextOpcode(m, rom) == fetch_8(m, rom[1]).data

\* a halt latch that would never hold the CPU
HaltIdles_Never(c, i) == FALSE

\* `if self.halt { if ctx.irq_occurred() { self.halt = false } else { idle } }`:
\* the CPU stays halted
HaltIdles(c, i) == c.halt /\ ~i.irq

\* excecute_instruction_ reaches its opcode fetch
CpuFetches(m) ==
    /\ m.cpu.prev_counter >= m.now
    /\ ~m.intr.nmi
    /\ ~(m.intr.irq /\ ~m.cpu.p.i)
    /\ ~HaltIdles(m.cpu, m.intr)

\* Cpu::excecute_instruction_ after its `prev_counter < now` test: the interrupt
\* checks, the halt latch, the opcode fetch and dispatch
AtBoundary(m, rom) ==
    LET m1 == [m EXCEPT !.intr = nmi_occurred(@)]
    IN  IF m.intr.nmi THEN
            exeption(CpuElapse(BusRead(m1, get_pc24(m1.cpu)).m, CPU_CYCLE), "Nmi")
        ELSE IF m1.intr.irq /\ ~m1.cpu.p.i THEN
            exeption(CpuElapse(BusRead(m1, get_pc24(m1.cpu)).m, CPU_CYCLE), "Irq")
        ELSE IF HaltIdles(m1.cpu, m1.intr) THEN CpuElapse(m1, CPU_CYCLE)
        ELSE FetchAndDispatch([m1 EXCEPT !.cpu.halt = FALSE], rom)

\* an excecute_instruction_ that would not wait for the master clock
excecute_instruction_NoWait(m, rom) == AtBoundary(m, rom)

\* Cpu::excecute_instruction_
excecute_instruction_(m, rom) ==
    IF m.cpu.prev_counter < m.now THEN m ELSE AtBoundary(m, rom)

\* Cpu::excecute_instruction
excecute_instruction(m, rom) ==
    LET nmi == m.cpu.prev_counter >= m.now /\ m.intr.nmi
        irq == m.cpu.prev_counter >= m.now /\ ~m.intr.nmi /\ m.intr.irq /\ ~m.cpu.p.i
        Done(m1) ==
            [m1 EXCEPT !.cpu.prev_counter = m1.now,
                       !.obs.last_step = IF m.cpu.prev_counter < m.now THEN "skip"
                                         ELSE IF nmi THEN "nmi"
                                         ELSE IF irq THEN "irq"
                                         ELSE IF CpuFetches(m) THEN "instr" ELSE "idle",
                       !.obs.step = [clocks |-> m1.now - m.now,
                                     stopped |-> m.cpu.stop,
                                     halted |-> m.cpu.halt,
                                     halt_after |-> m1.cpu.halt,
                                     nmi |-> m.intr.nmi,
                                     nmi_raise |-> m.intr.nmi_raise,
                                     irq |-> m.intr.irq,
                                     pc_moved |-> m1.cpu.pc # m.cpu.pc,
                                     s_moved |-> m1.cpu.s # m.cpu.s],
                       !.obs.idle_steps =
                           IF m.cpu.prev_counter >= m.now /\ ~nmi /\ ~irq /\ ~CpuFetches(m)
                           THEN @ + 1 ELSE @,
                       !.obs.nmi_entries = IF nmi THEN @ + 1 ELSE @,
                       !.obs.irq_entries = IF irq THEN @ + 1 ELSE @,
                       !.obs.entry_after = IF nmi THEN m.obs.after_edge ELSE @]
    IN  Done(excecute_instruction_(m, rom))

-----------------------------------------------------------------------------
(* The machine as one record, and the history variables *)

M == [now |-> now, cpu |-> cpu, intr |-> intr, ppu |-> ppu, spc |-> spc, bus |-> bus,
      cart |-> cart, obs |-> obs]

Store(m) ==
    /\ now' = m.now
    /\ cpu' = m.cpu
    /\ intr' = m.intr
    /\ ppu' = m.ppu
    /\ spc' = m.spc
    /\ bus' = m.bus
    /\ cart' = m.cart
    /\ obs' = m.obs

EventNames == {"is_hdma_reload", "is_hdma_transfer", "auto_joypad_read"}

ObsInit ==
    [ access_in_dma |-> 0,       \* clocks billed by Bus::read/write arms while is_dma_active
      engine_clock |-> 0,        \* clocks billed by the DMA engines themselves
      bytes |-> [ch \in Channels |-> 0],       \* bytes moved by GDMA, per channel
      hdma_bytes |-> [ch \in Channels |-> 0],  \* bytes moved by HDMA, per channel
      order_ok |-> TRUE,         \* every GDMA byte was moved by the lowest enabled channel
      completed |-> {},          \* GDMA channels that reached count 0
      start |-> [mask |-> 0, now |-> 0, count |-> [ch \in Channels |-> 0]],
      raised |-> [ev \in EventNames |-> 0],
      serviced |-> [ev \in EventNames |-> 0],
      vblank_entries |-> 0,      \* times the PPU reached (x, y) = (0, 225)
      vblank_nmi |-> 0,          \* ... with NMI enabled
      merged |-> 0,              \* ... with NMI enabled while nmi_raise was still set
      idle_steps |-> 0,          \* CPU steps that billed idle clocks on the halt latch
      last_step |-> "none",      \* what the latest call of excecute_instruction did
      step |-> [clocks |-> 0, stopped |-> FALSE, halted |-> FALSE, halt_after |-> FALSE,
                nmi |-> FALSE, nmi_raise |-> FALSE, irq |-> FALSE,
                pc_moved |-> FALSE, s_moved |-> FALSE],
                                 \* the latest CPU step: the clocks it billed; cpu.stop,
                                 \* cpu.halt, the NMI latches and the IRQ line before it;
                                 \* cpu.halt after it; whether it changed PC or S
      after_edge |-> 0,          \* opcodes fetched since the NMI edge now pending
      entry_after |-> 0,         \* after_edge at the latest NMI entry
      nmi_entries |-> 0,
      irq_entries |-> 0,
      hdma_over_gdma |-> {},     \* channels HDMA took while their GDMA bit was set
      gdma_after_hdma |-> 0,     \* bytes GDMA moved on such a channel afterwards
      reload_zero |-> {},        \* channels whose first table byte was 0 at this
                                 \* frame's reload
      ended |-> {},              \* channels that fetched a zero line-counter byte as
                                 \* the next entry since the reload
      late_bytes |-> 0,          \* bytes HDMA moved on such a channel afterwards
      zero_bytes |-> 0,          \* bytes HDMA moved on such a channel in the frame
      entry |-> [ch \in Channels |-> HdmaEntry(0)],  \* the table entry in progress
      done |-> [ch \in Channels |-> HdmaEntry(0)],   \* the latest entry that ended
      rdnmi |-> <<>>,            \* the reads of $4210 since the latest VBlank entry:
                                 \* the NMI flag before the read and the byte returned
      timeup |-> <<>>,           \* the reads of $4211 since the IRQ line was last raised:
                                 \* the IRQ line before the read and the byte returned
      irq_raises |-> 0,          \* times the PPU raised the IRQ line
      irq_frame |-> -1,          \* the frame of the latest raise
      irq_dot |-> <<>>,          \* the dot (x, y) of the latest raise
      irq_ok |-> TRUE,           \* every raise in mode 3 was at the dot (h, v), and no
                                 \* two raises fell into one frame
      captured |-> [port \in 0..1 |-> [k \in 0..1 |-> 0]],
                                 \* the pad words at the latest auto-joypad read
      auto_reads |-> 0,          \* auto-joypad reads performed
      joypad_dot |-> 0,          \* the PPU's clock at the latest dot (33, 225)
      pushed |-> <<>>,           \* bytes pushed by the latest interrupt entry
      panic |-> "none",          \* the panic that ended the emulator, if any
      stack |-> {},              \* the moves of S made by push_8 and pop_8
      dots |-> 0,                \* PPU steps since the latest frame-counter increment
      frames |-> <<>>,           \* per frame-counter increment: the dot counter after
                                 \* it, and the steps since the previous one (or since
                                 \* the run's first state)
      flag_rise |-> {},          \* dots at which the NMI flag went from 0 to 1
      vblank_set |-> {},         \* dots at which is_vblank went from false to true
      vblank_clear |-> {},       \* dots at which is_vblank went from true to false
      entry_cpu |-> CpuDefault,  \* the registers when the latest interrupt entry began
      port |-> [kind |-> "none", addr |-> 0, data |-> 0],
                                 \* the latest register access of a SpecPorts run: who
                                 \* made it, where, and the byte written or returned
      latch |-> 0,               \* the byte of the latest $2122 write at an even address
      bus_last |-> -1,           \* the byte of the latest Bus::read or Bus::write, if any
      cpu_wrote |-> [port \in 0..3 |-> -1],   \* the byte the CPU last wrote to $2140+port
      apu_wrote |-> [port \in 0..3 |-> -1],   \* the byte the SPC last wrote to $F4+port
      cleared |-> [port \in 0..3 |-> FALSE],  \* the SPC wrote a clear bit to $F1 after
                                              \* the CPU last wrote to $2140+port
      moved |-> 0,               \* bytes moved by MVN and MVP
      move_n |-> 0,              \* A when the first of them was moved
      keys |-> {},               \* the keys of pad 1 the host last passed to set_keys
      reads |-> -1,              \* reads of $4016 since the latest write of 1 to it
      apu_clocks |-> 0,          \* SPC clocks passed to tick_timer so far
      since |-> [i \in 0..2 |-> 0],     \* enabled steps of timer i since its latest
                                        \* increment
      visible |-> [i \in 0..2 |-> 0] ]  \* increments of timer i, modulo 16, since the
                                        \* latest read of its output

PpuInit ==
    [ counter |-> 0, x |-> 0, y |-> 0, frame_number |-> 0,
      is_vblank |-> FALSE, is_hblank |-> FALSE,
      is_hdma_reload |-> FALSE, is_hdma_transfer |-> FALSE, auto_joypad_read |-> FALSE,
      cgram |-> [i \in {} |-> 0],    \* the entries of cgram[0..0xFF] written so far
      palette_cgram_addr |-> 0, palette_cgram_lsb |-> 0 ]

SpcInit ==
    [counter |-> 0, prev_counter |-> 0, dsp_counter |-> 0, ip |-> 1,
     sleep |-> FALSE, stop |-> FALSE, panic |-> "none",
     cpu_in |-> [port \in 0..3 |-> 0], cpu_out |-> [port \in 0..3 |-> 0],
     timer |-> [i \in 0..2 |-> TimerDefault], timer_counter_01 |-> 0, timer_counter_2 |-> 0]

\* NMI vectors of the guest ROM: native 0x9000, emulation 0xA000; both IRQ
\* vectors: 0xB000
GuestVectors ==
    (\h00FFEA :> \h00) @@ (\h00FFEB :> \h90) @@ (\h00FFFA :> \h00) @@ (\h00FFFB :> \hA0)
      @@ (\h00FFEE :> \h00) @@ (\h00FFEF :> \hB0) @@ (\h00FFFE :> \h00) @@ (\h00FFFF :> \hB0)

-----------------------------------------------------------------------------
(* SpecDma: GDMA runs.  The Bus registers are programmed, the CPU's write to   *)
(* $420B starts the transfer, and Bus::tick is called until the enable mask   *)
(* is 0 (or the clock horizon of the run is reached).                          *)

DmaHorizon == 400          \* clocks explored for a run with a small byte count
LongDmaHorizon == 600000   \* clocks explored for the run with byte count 0

WRAM_7E0000 == \h7E0000    \* a WRAM address
REG_MDMAEN == \h00420B     \* the GDMA enable register
REG_DAS0L == \h004305      \* channel 0's own byte-count register (low byte)
PORT_VMDATAL == \h18       \* B-bus port $2118
PORT_UNMAPPED == \h84      \* B-bus port $2184, decoded by no arm of Bus::write
PORT_WMDATA == \h80        \* B-bus port $2180, the WRAM data port

\* the $43x0 parameter bytes used: A->B units 0, 1, 4; B->A unit 0 fixed, unit 1 fixed
DmaParamBytes == {\h00, \h01, \h04, \h88, \h89}
FillBytes == {1, 3}
DmaMasks == {1, 2, 3}

Ch0Configs ==
    [params : DmaParamBytes, b : {PORT_VMDATAL, PORT_UNMAPPED, PORT_WMDATA},
     a : {WRAM_7E0000, REG_DAS0L, REG_MDMAEN}, count : {1, 2, 3, 5}]
      \cup {[params |-> \h04, b |-> PORT_VMDATAL, a |-> WRAM_7E0000, count |-> 0]}

Ch1Configs ==
    [params : {\h01, \h89}, b : {PORT_VMDATAL, PORT_WMDATA}, a : {WRAM_7E0000, REG_MDMAEN},
     count : {2, 3}]

\* channel 1 in the run whose channel 0 moves 65,536 bytes
LongRunCh1 == [params |-> \h01, b |-> PORT_VMDATAL, a |-> WRAM_7E0000, count |-> 2]

\* the channel registers after the guest programmed them with cfg
DmaProgrammed(cfg) ==
    [DmaDefault EXCEPT !.dma_params = cfg.params,
                       !.b_bus_address = cfg.b,
                       !.a_bus_address = cfg.a % 65536,
                       !.a_bus_bank = cfg.a \div 65536,
                       !.number_of_bytes_to_transfer = cfg.count]

IdleLoop == [pos |-> "idle", frame |-> 0, calls |-> 0]

InitDma ==
    /\ now = 0
    /\ cpu = CpuDefault
    /\ intr = InterruptDefault
    /\ ppu = PpuInit
    /\ spc = SpcInit
    /\ cart = CartridgeNew
    /\ loop = IdleLoop
    /\ obs = ObsInit
    /\ \E c0 \in Ch0Configs, c1 \in Ch1Configs, f \in FillBytes :
          /\ c0.count = 0 => (c1 = LongRunCh1 /\ f = 1)
          /\ bus = [BusDefault EXCEPT !.dma[0] = DmaProgrammed(c0),
                                      !.dma[1] = DmaProgrammed(c1)]
          /\ guest = [fill |-> f, mem |-> GuestVectors, apu |-> <<>>, sram_len |-> 0, map_mode |-> "LoRom",
                      until |-> IF c0.count = 0 THEN LongDmaHorizon ELSE DmaHorizon]

\* the CPU's store to $420B
WriteMDMAEN ==
    /\ loop.pos = "idle"
    /\ \E mask \in DmaMasks :
          /\ guest.until = LongDmaHorizon => mask = 1
          /\ LET Started(m) ==
                     [m EXCEPT !.obs.start =
                         [mask |-> mask, now |-> m.now,
                          count |-> [ch \in Channels |->
                                        bus.dma[ch].number_of_bytes_to_transfer]]]
             IN  Store(Started(BusWrite(M, REG_MDMAEN, mask)))
    /\ loop' = [loop EXCEPT !.pos = "bus"]
    /\ UNCHANGED guest

\* Bus::tick while a GDMA is in progress
DmaBusTick ==
    /\ loop.pos = "bus"
    /\ bus.gdma_enable # 0
    /\ now < guest.until
    /\ Store(bus_tick(M))
    /\ UNCHANGED <<loop, guest>>

NextDma == WriteMDMAEN \/ DmaBusTick

SpecDma == InitDma /\ [][NextDma]_vars

-----------------------------------------------------------------------------
(* Properties of GDMA *)

\* the number of bytes a channel started with count n is to move
ExpectedBytes(n) == IF n = 0 THEN 65536 ELSE n

\* C7: a GDMA channel started with byte count N has moved exactly N bytes
\* (65,536 for N = 0) when it completes, and its byte count is then 0.
C7_GdmaMovesCountBytes ==
    \A ch \in obs.completed :
        /\ obs.bytes[ch] = ExpectedBytes(obs.start.count[ch])
        /\ Bit(bus.gdma_enable, ch) = 0 => bus.dma[ch].number_of_bytes_to_transfer = 0

\* C8 (order part): after the write to $420B no byte of a channel is moved while
\* a lower-numbered channel is enabled and has not completed.
C8_GdmaAscendingOrder == obs.order_ok

\* C9: while is_dma_active is set, no arm of Bus::read or Bus::write bills clocks.
C9_NoAccessBillingInDma == obs.access_in_dma = 0

\* a single-channel GDMA has run to completion
SingleChannelDone ==
    /\ loop.pos = "bus"
    /\ bus.gdma_enable = 0
    /\ obs.start.mask \in {1, 2}
    /\ obs.completed = {trailing_zeros(obs.start.mask)}

\* C10: for a single-channel GDMA of N bytes the engine bills 8 + 8 * N + 16 clocks.
C10_GdmaBills8Plus8NPlus16 ==
    SingleChannelDone =>
        obs.engine_clock = 8 + 8 * obs.bytes[trailing_zeros(obs.start.mask)] + 16

-----------------------------------------------------------------------------
(* Spec: Snes::exec_frame.  A run starts inside a call of exec_frame, at the   *)
(* top of its loop, with the PPU a few dots before the part of the frame the   *)
(* run looks at: the end of the frame, the VBlank entry, a line's HDMA dot.    *)
(* The guest's next instructions are drawn from the run's program, a sequence  *)
(* of sets of instructions (Budget of them in a short run); the rest of its    *)
(* program is NOPs.  The run is followed until the master clock passes the     *)
(* run's horizon.                                                              *)

Budget == 2            \* instructions of the guest chosen freely
HdmaSpan == 5400       \* clocks followed by a run over the first lines of a frame
MaxCalls == 2          \* calls of exec_frame followed
Span == 260            \* clocks followed by a short run
LongSpan == 407000     \* clocks followed by the run with the long GDMA
LongCount == 45056     \* byte count of the long GDMA (more than a frame of clocks)
ProgramBase == \h8000  \* where the guest's program counter stands at the start

ROM_NOP == <<OP_NOP, 0, 0>>
ROM_WAI == <<OP_WAI, 0, 0>>
ROM_STP == <<OP_STP, 0, 0>>
ROM_JMP_DMAREG == <<OP_JMP_ABS, \h70, \h43>>    \* JMP $4370
ROM_LDA_RDNMI == <<OP_LDA_ABS, \h10, \h42>>     \* LDA $4210
ROM_STA_MDMAEN == <<OP_STA_ABS, \h0B, \h42>>    \* STA $420B
ROM_SED == <<OP_SED, 0, 0>>
ROM_STA_HDMAEN == <<OP_STA_ABS, \h0C, \h42>>    \* STA $420C
ROM_LDA_TIMEUP == <<OP_LDA_ABS, \h11, \h42>>    \* LDA $4211
ROM_CLI == <<OP_CLI, 0, 0>>

\* channel 7's registers $4370..$4372 holding the bytes 4C 70 43 (JMP $4370)
DmaHoldingJmp ==
    [DmaDefault EXCEPT !.dma_params = OP_JMP_ABS, !.b_bus_address = \h70,
                       !.a_bus_address = \h43]

Ch0Plain == [params |-> \h01, b |-> PORT_VMDATAL, a |-> WRAM_7E0000, count |-> 6]
Ch0Long == [params |-> \h04, b |-> PORT_VMDATAL, a |-> WRAM_7E0000, count |-> LongCount]
Ch0Hdma == [params |-> \h01, b |-> PORT_VMDATAL, a |-> WRAM_7E0000, count |-> 0]
Ch1Plain == [params |-> \h00, b |-> PORT_UNMAPPED, a |-> WRAM_7E0000, count |-> 3]

\* HDMA tables of channels 0 and 1 in WRAM
TABLE0 == \h7E1000
TABLE1 == \h7E2000
Ch0Table == [params |-> \h01, b |-> PORT_VMDATAL, a |-> TABLE0, count |-> 0]
Ch1Table == [params |-> \h00, b |-> PORT_VMDATAL, a |-> TABLE1, count |-> 0]

\* $4200 bits 4-5 = 3 and the targets after the guest wrote the low and the high
\* byte of h to $4207/$4208 and of v to $4209/$420A, starting from the targets
\* of Bus::new
NoIrq == [mode |-> 0, h |-> 0, v |-> 0]
IrqAt(h, v) ==
    [mode |-> 3,
     h |-> CountHigh(CountLow(BusDefault.h_count, h % 256), h \div 256),
     v |-> CountHigh(CountLow(BusDefault.v_count, v % 256), v \div 256)]
NoMem == [addr \in {} |-> 0]

\* channel registers on line 224 of a frame whose HDMA reload found the channel
\* enabled: every table byte of the run is 1, so each line so far moved the unit's
\* two bytes and read the next one-line entry
HdmaInProgress(cfg) ==
    [DmaProgrammed(cfg) EXCEPT !.hdma_table_current_address = 1 + 3 * HDMA_LAST_LINE,
                               !.hdma_line_counter = 1,
                               !.is_hdma_active = TRUE]

\* a program of Budget instructions, each any of ops
AnyOf(ops) == [i \in 1..Budget |-> ops]

\* the runs: where the PPU stands, what the guest has set up, what it may execute
FrameEndRuns ==
    [xreg : {0}, apu : {<<>>}, name : {"frame_end"}, x : {325}, y : {261}, nmi_enable : {TRUE}, hdma_enable : {0, 1},
     joypad_enable : {FALSE}, a : {0}, e : {TRUE}, ch0 : {Ch0Plain}, ch1 : {Ch1Plain},
     lc : {0}, irq : {NoIrq}, mem : {NoMem},
     ops : {AnyOf({ROM_NOP, ROM_WAI, ROM_STP, ROM_JMP_DMAREG})}, span : {Span}]

VBlankRuns ==
    [xreg : {0}, apu : {<<>>}, name : {"vblank"}, x : {334}, y : {224}, nmi_enable : BOOLEAN, hdma_enable : {0},
     joypad_enable : BOOLEAN, a : {0}, e : BOOLEAN, ch0 : {Ch0Plain}, ch1 : {Ch1Plain},
     lc : {0}, irq : {NoIrq}, mem : {NoMem},
     ops : {AnyOf({ROM_NOP, ROM_WAI, ROM_LDA_RDNMI, ROM_SED})}, span : {Span}]

GdmaRuns ==
    [xreg : {0}, apu : {<<>>}, name : {"gdma"}, x : {330}, y : {224}, nmi_enable : {TRUE}, hdma_enable : {0},
     joypad_enable : {TRUE}, a : {1, 3}, e : {TRUE}, ch0 : {Ch0Plain}, ch1 : {Ch1Plain},
     lc : {0}, irq : {NoIrq}, mem : {NoMem},
     ops : {AnyOf({ROM_NOP, ROM_STA_MDMAEN})}, span : {Span}]

\* line 224 of a frame, shortly before the HDMA dot; the guest may rewrite $420C
\* or start a GDMA on the channels HDMA uses
HdmaRuns ==
    [xreg : {0}, apu : {<<>>}, name : {"hdma"}, x : {270}, y : {224}, nmi_enable : {FALSE}, hdma_enable : {0, 1},
     joypad_enable : {FALSE}, a : {0, 3}, e : {TRUE}, ch0 : {Ch0Hdma}, ch1 : {Ch1Plain},
     lc : {0}, irq : {NoIrq}, mem : {NoMem},
     ops : {AnyOf({ROM_NOP, ROM_STA_HDMAEN, ROM_STA_MDMAEN})}, span : {Span}]

\* the first lines of a frame, from before the HDMA reload dot on: channel 0's
\* table starts with the byte c0 and channel 0's line counter still holds lc from
\* the frame before; every other table byte is the run's fill byte 1
HdmaFrameRuns ==
    { [xreg |-> 0, apu |-> <<>>, name |-> "hdma_frame", x |-> 2, y |-> 0, nmi_enable |-> FALSE,
       hdma_enable |-> en, joypad_enable |-> FALSE, a |-> 0, e |-> TRUE,
       ch0 |-> Ch0Table, ch1 |-> Ch1Table, lc |-> lc, irq |-> NoIrq,
       mem |-> (TABLE0 :> c0), ops |-> AnyOf({ROM_NOP}), span |-> HdmaSpan] :
      en \in {1, 3}, lc \in {0, 1, \h85}, c0 \in {\h00, \h01, \h02, \h82, \h80} }
    \cup
    \* channel 0's table is the one-line entry $01 followed by the end byte $00
    { [xreg |-> 0, apu |-> <<>>, name |-> "hdma_frame", x |-> 2, y |-> 0, nmi_enable |-> FALSE,
       hdma_enable |-> en, joypad_enable |-> FALSE, a |-> 0, e |-> TRUE,
       ch0 |-> Ch0Table, ch1 |-> Ch1Table, lc |-> 0, irq |-> NoIrq,
       mem |-> (TABLE0 :> \h01) @@ ((TABLE0 + 3) :> \h00),
       ops |-> AnyOf({ROM_NOP}), span |-> HdmaSpan] : en \in {1, 3} }

\* in VBlank (NMI flag set), shortly before the dot of an H/V IRQ in mode 3; the
\* guest may read $4210 and $4211
IrqOps == {ROM_NOP, ROM_LDA_TIMEUP, ROM_LDA_RDNMI, ROM_WAI, ROM_CLI}
IrqRuns ==
    [xreg : {0}, apu : {<<>>}, name : {"irq"}, x : {116, 126}, y : {256}, nmi_enable : {FALSE}, hdma_enable : {0},
     joypad_enable : {FALSE}, a : {0}, e : {TRUE}, ch0 : {Ch0Plain}, ch1 : {Ch1Plain},
     lc : {0}, irq : {IrqAt(\h80, \h100)}, mem : {NoMem},
     ops : {<<IrqOps, IrqOps, IrqOps>>},
     span : {Span}]

\* the long GDMA is started before the VBlank entry, or at the first instruction
\* boundary after it; an H/V IRQ in mode 3 is set up for a dot the run passes
\* once, or once in each of its two frames
LongRuns ==
    { [xreg |-> 0, apu |-> <<>>, name |-> "long", x |-> 337, y |-> 224, nmi_enable |-> TRUE, hdma_enable |-> 0,
       joypad_enable |-> FALSE, a |-> 1, e |-> TRUE, ch0 |-> Ch0Long, ch1 |-> Ch1Plain,
       lc |-> 0, irq |-> IrqAt(\h80, \h100), mem |-> NoMem,
       ops |-> <<{ROM_STA_MDMAEN}>>, span |-> LongSpan],
      [xreg |-> 0, apu |-> <<>>, name |-> "long", x |-> 337, y |-> 224, nmi_enable |-> TRUE, hdma_enable |-> 0,
       joypad_enable |-> FALSE, a |-> 1, e |-> TRUE, ch0 |-> Ch0Long, ch1 |-> Ch1Plain,
       lc |-> 0, irq |-> IrqAt(\h80, 230), mem |-> NoMem,
       ops |-> <<{ROM_NOP}, {ROM_STA_MDMAEN}>>, span |-> LongSpan] }

\* the guest sets S from X at either end of page 1 and then pushes, pulls or
\* changes P, in emulation mode, across the VBlank entry
StackOps ==
    { ROM_NOP, <<OP_PHA, 0, 0>>, <<OP_PLA, 0, 0>>, <<OP_PHP, 0, 0>>, <<OP_PLP, 0, 0>>,
      <<OP_REP, \h30, 0>>, <<OP_SEP, \h30, 0>> }
StackRuns ==
    [xreg : {\h00, \h01, \hFF}, apu : {<<>>}, name : {"stack"}, x : {334}, y : {224},
     nmi_enable : BOOLEAN, hdma_enable : {0},
     joypad_enable : {FALSE}, a : {0}, e : {TRUE}, ch0 : {Ch0Plain}, ch1 : {Ch1Plain},
     lc : {0}, irq : {IrqAt(\h80, \h100)}, mem : {NoMem},
     ops : {<<{<<OP_TXS, 0, 0>>}, StackOps, StackOps>>},
     span : {Span}]

\* the APU runs a program of two instructions that the guest uploaded: NOP, a
\* read of one of the I/O addresses $F0-$FF, a write of a CPU port, SLEEP or STOP
SpcOps ==
    {<<SPC_NOP, 0>>, <<SPC_STA_DP, \hF4>>, <<SPC_SLEEP, 0>>, <<SPC_STOP, 0>>}
      \cup {<<SPC_LDA_DP, addr>> : addr \in \h00F0..\h00FF}
SpcRuns ==
    [xreg : {0}, apu : {<<a, b>> : a \in SpcOps, b \in SpcOps}, name : {"apu"},
     x : {10}, y : {100}, nmi_enable : {FALSE}, hdma_enable : {0},
     joypad_enable : {FALSE}, a : {0}, e : {TRUE}, ch0 : {Ch0Plain}, ch1 : {Ch1Plain},
     lc : {0}, irq : {IrqAt(\h80, \h100)}, mem : {NoMem},
     ops : {<<{ROM_NOP}>>},
     span : {Span}]

\* the guest reads or writes the cartridge: program ROM ($00:8000), and the
\* LoROM hole below it ($00:6000, where other cartridges have SRAM)
CartOps ==
    { ROM_NOP, <<OP_LDA_ABS, \h00, \h80>>, <<OP_LDA_ABS, \h00, \h60>>,
      <<OP_STA_ABS, \h00, \h60>>, <<OP_LDA_ABS, \hFF, \h7F>> }
CartRuns ==
    [xreg : {0}, apu : {<<>>}, name : {"cart"},
     x : {10}, y : {100}, nmi_enable : {FALSE}, hdma_enable : {0},
     joypad_enable : {FALSE}, a : {0}, e : {TRUE}, ch0 : {Ch0Plain}, ch1 : {Ch1Plain},
     lc : {0}, irq : {IrqAt(\h80, \h100)}, mem : {NoMem},
     ops : {<<CartOps, CartOps>>},
     span : {Span}]

\* the instructions of the guest's ROM that a run fixes by their address
NoCode == [pc \in {} |-> ROM_NOP]

MoveSpan == 600

\* the guest moves a block of WRAM: MVN or MVP $7E,$7E at $00:8000 with A = n, the
\* interrupt handlers being an RTI; the run starts shortly before the VBlank NMI
MoveCode(op) ==
    (ProgramBase :> <<op, \h7E, \h7E>>) @@ (\h9000 :> <<OP_RTI, 0, 0>>)
      @@ (\hA000 :> <<OP_RTI, 0, 0>>) @@ (\hB000 :> <<OP_RTI, 0, 0>>)
MoveRuns ==
    [xreg : {\h20, \hFF}, yreg : {\h40}, apu : {<<>>}, name : {"move"},
     x : {330}, y : {224}, nmi_enable : BOOLEAN, hdma_enable : {0},
     joypad_enable : {FALSE}, a : {0, 1, 3}, e : BOOLEAN, ch0 : {Ch0Plain},
     ch1 : {Ch1Plain}, lc : {0}, irq : {NoIrq},
     mem : {(\h7E0020 :> 5) @@ (\h7E0021 :> 6) @@ (\h7E00FF :> 7)},
     ops : {<<{ROM_NOP}>>}, code : {MoveCode(OP_MVN), MoveCode(OP_MVP)},
     span : {MoveSpan}]

Runs ==
    FrameEndRuns \cup VBlankRuns \cup GdmaRuns \cup HdmaRuns \cup HdmaFrameRuns
      \cup IrqRuns \cup LongRuns \cup StackRuns \cup SpcRuns \cup CartRuns
      \cup MoveRuns

\* the state at the top of the exec_frame loop described by the run r
InitOf(r) ==
    LET t == PPU_DOT_CLOCKS * (r.y * DOTS_PER_LINE + r.x)
    IN  /\ now = t
        /\ cart = CartridgeNew
        /\ cpu = [CpuDefault EXCEPT !.pc = ProgramBase, !.a = r.a, !.x = r.xreg,
                                    !.y = IF "yreg" \in DOMAIN r THEN r.yreg ELSE @,
                                    !.prev_counter = t,
                                    !.e = r.e]
        /\ intr = [InterruptDefault EXCEPT !.nmi_enable = r.nmi_enable,
                                           !.nmi_flag = r.y >= VBLANK_LINE,
                                           !.hv_irq_enable = r.irq.mode,
                                           !.h_count = r.irq.h,
                                           !.v_count = r.irq.v]
        /\ ppu = [PpuInit EXCEPT !.counter = t, !.x = r.x, !.y = r.y,
                                 !.is_vblank = r.y >= VBLANK_LINE,
                                 !.is_hblank = r.x >= HBLANK_START_DOT]
        /\ spc = [SpcInit EXCEPT !.counter = clock_from_master(t),
                                 !.prev_counter = clock_from_master(t)]
        /\ bus = [BusDefault EXCEPT !.dma[0] = IF r.name = "hdma" /\ r.hdma_enable # 0
                                                THEN HdmaInProgress(r.ch0)
                                                ELSE [DmaProgrammed(r.ch0) EXCEPT
                                                         !.hdma_line_counter = r.lc],
                                    !.dma[1] = DmaProgrammed(r.ch1),
                                    !.dma[7] = DmaHoldingJmp,
                                    !.hdma_enable = r.hdma_enable,
                                    !.joypad_enable = r.joypad_enable,
                                    !.h_count = IF r.irq.mode = 0 THEN @ ELSE r.irq.h,
                                    !.v_count = IF r.irq.mode = 0 THEN @ ELSE r.irq.v]
        /\ loop = [pos |-> "cpu", frame |-> 0, calls |-> 1]
        /\ guest = [fill |-> 1, mem |-> GuestVectors @@ r.mem, apu |-> r.apu, sram_len |-> 0, map_mode |-> "LoRom",
                    start |-> r.y * DOTS_PER_LINE + r.x,
                    until |-> t + r.span, ops |-> r.ops, budget |-> Len(r.ops), name |-> r.name,
                    code |-> IF "code" \in DOMAIN r THEN r.code ELSE NoCode]
        /\ obs = ObsInit

Init == \E r \in Runs : InitOf(r)

\* Snes::exec_frame is called (again)
ExecFrameCall ==
    /\ loop.pos = "returned"
    /\ loop.calls < MaxCalls
    /\ loop' = [pos |-> "cpu", frame |-> ppu.frame_number, calls |-> loop.calls + 1]
    /\ UNCHANGED <<now, cpu, intr, ppu, spc, bus, cart, guest, obs>>

\* what the host may pass to set_keys: pad 1 holds nothing, A, or B and Start
HostKeys ==
    { [i \in 0..3 |-> IF i = 0 THEN held ELSE {}] : held \in {{}, {"A"}, {"B", "Start"}} }

\* Snes::set_keys, called by the host between two calls of exec_frame
SetKeys ==
    /\ loop.pos = "returned"
    /\ \E keys \in HostKeys :
          /\ bus' = set_keys(bus, keys)
          /\ bus' # bus
    /\ UNCHANGED <<now, cpu, intr, ppu, spc, cart, loop, guest, obs>>

\* context.exce_one(): Cpu::excecute_instruction
CpuStep ==
    /\ loop.pos = "cpu"
    /\ now < guest.until
    /\ LET fromCode == CpuFetches(M) /\ get_pc24(cpu) \in DOMAIN guest.code
           fromOps == /\ CpuFetches(M) /\ InProgramRom(get_pc24(cpu))
                      /\ ~fromCode /\ guest.budget > 0
       IN
       \E rom \in (IF fromCode THEN {guest.code[get_pc24(cpu)]}
                   ELSE IF fromOps THEN guest.ops[Len(guest.ops) - guest.budget + 1]
                   ELSE {ROM_NOP}) :
          /\ CpuFetches(M) => NextOpcode(M, rom) \in ModelledOpcodes
          /\ Store(excecute_instruction(M, rom))
          /\ guest' = [guest EXCEPT !.budget = IF fromOps THEN @ - 1 ELSE @]
    /\ loop' = [loop EXCEPT !.pos = IF obs'.panic # "none" THEN "aborted" ELSE "ppu"]

\* ppu_tick()
PpuTick ==
    /\ loop.pos = "ppu"
    /\ Store(ppu_tick(M))
    /\ loop' = [loop EXCEPT !.pos = "spc"]
    /\ UNCHANGED guest

\* spc_tick()
SpcTick ==
    /\ loop.pos = "spc"
    /\ spc' = spc_tick(spc, now)
    /\ loop' = [loop EXCEPT !.pos = IF spc'.panic # "none" THEN "aborted" ELSE "bus"]
    /\ UNCHANGED <<now, cpu, intr, ppu, bus, cart, guest, obs>>

\* bus_tick(), then the `while frame == ppu.frame_number` test
BusTick ==
    /\ loop.pos = "bus"
    /\ Store(bus_tick(M))
    /\ loop' = [loop EXCEPT !.pos = IF obs'.panic # "none" THEN "aborted"
                                    ELSE IF loop.frame = ppu.frame_number THEN "cpu"
                                    ELSE "returned"]
    /\ UNCHANGED guest

Next == ExecFrameCall \/ SetKeys \/ CpuStep \/ PpuTick \/ SpcTick \/ BusTick

Spec == Init /\ [][Next]_vars

\* the runs that start at the end of a frame, with weak fairness of the loop
InitFrameEnd == \E r \in FrameEndRuns : InitOf(r)

\* ENABLED <<Next>>_vars, from the guards of the actions
Runnable ==
    \/ loop.pos = "returned"
    \/ /\ loop.pos = "cpu"
       /\ now < guest.until
       /\ CpuFetches(M) => NextOpcode(M, ROM_NOP) \in ModelledOpcodes
    \/ loop.pos \in {"ppu", "spc", "bus"}

\* weak fairness of Next, WF_vars(Next), written out with Runnable in place of
\* ENABLED <<Next>>_vars; the host's next call is fair as well
LoopFairness == []<>(~Runnable) \/ []<><<Next>>_vars
SpecFair == InitFrameEnd /\ [][Next]_vars /\ LoopFairness /\ WF_vars(ExecFrameCall)

-----------------------------------------------------------------------------
(* Properties of exec_frame, the CPU's instruction boundary and the NMI *)

\* C1: the call of exec_frame in progress terminates whatever the guest executes.
C1_ExecFrameReturns == <>(loop.pos = "returned")

\* C2: while the GDMA enable mask is nonzero the CPU's step does nothing (it
\* executes no instruction, enters no interrupt handler, bills no clock), and the
\* PPU and the APU are brought up to the master clock in every iteration.
C2_CpuPausedDuringGdma ==
    /\ [][(loop.pos = "cpu" /\ bus.gdma_enable # 0) =>
            /\ cpu' = [cpu EXCEPT !.prev_counter = now]
            /\ now' = now
            /\ intr' = intr
            /\ obs'.last_step = "skip"]_vars
    /\ [](loop.pos \in {"spc", "bus"} => ppu.counter + PPU_DOT_CLOCKS > now)
    /\ [](loop.pos = "bus" => spc.counter >= clock_from_master(now))

\* a CPU step was skipped during a GDMA while an NMI edge was pending
C2_Witness ==
    /\ loop.pos = "ppu"
    /\ obs.last_step = "skip"
    /\ bus.gdma_enable # 0
    /\ obs.bytes[0] > 0
    /\ NmiPending(intr)

\* C3: every event the PPU raises is taken by Bus::tick exactly once and in the
\* same iteration: an event is never raised while its flag is still set, a flag
\* is never taken twice, and no flag is set when the CPU takes its next step.
C3_EventsServicedOnce ==
    \A ev \in EventNames :
        /\ obs.raised[ev] - obs.serviced[ev] = IF ppu[ev] THEN 1 ELSE 0
        /\ loop.pos \in {"cpu", "ppu", "returned"} => ~ppu[ev]

\* an HDMA transfer event was serviced and moved bytes, after a catch-up of the PPU
C3_Witness ==
    /\ loop.pos = "cpu"
    /\ obs.serviced["is_hdma_transfer"] = 1
    /\ obs.hdma_bytes[0] > 0

C5_NmiAtNextBoundary == obs.nmi_entries > 0 => obs.entry_after = 0

\* the CPU's latest step entered the NMI handler
NmiJustEntered == loop.pos = "ppu" /\ obs.last_step = "nmi"

\* the bytes an NMI entry is to push, from the registers at the boundary
ExpectedNmiPushes(c) ==
    (IF c.e THEN <<>> ELSE <<c.pb>>)
      \o <<c.pc \div 256, c.pc % 256, StatusByte([c.p EXCEPT !.x = IF c.e THEN FALSE ELSE @])>>

\* C6: an NMI entry pushes PB (native mode only), PC high, PC low and P, and
\* leaves I = 1, D = 0 and PC = the word at the NMI vector.
C6_NmiEntryState ==
    NmiJustEntered =>
        /\ obs.pushed = ExpectedNmiPushes(obs.entry_cpu)
        /\ cpu.p.i
        /\ ~cpu.p.d
        /\ cpu.pc = MemByte(get_interrupt_vector(obs.entry_cpu, "Nmi") + 1) * 256
                      + MemByte(get_interrupt_vector(obs.entry_cpu, "Nmi"))

-----------------------------------------------------------------------------
(* Properties of HDMA *)

\* C11: a channel whose first table byte was 0 at the frame's reload moves no
\* byte by HDMA on any line of that frame.
C11_ZeroTableNoTransfer == obs.zero_bytes = 0

\* C38: a channel that fetched a zero line-counter byte as its next table entry
\* moves no byte by HDMA on a later line of that frame, until the next reload.
C38_EndedChannelIsSilent == obs.late_bytes = 0

\* the lines on which a channel is to transfer during an entry with line-counter
\* byte c that has lasted `lines` lines
ExpectedTransfers(c, lines) == IF c >= 128 THEN lines ELSE IF lines > 0 THEN 1 ELSE 0

\* the entry e agrees with its line-counter byte so far
EntryInStep(e) ==
    /\ e.lines <= e.c % 128
    /\ e.transfers = ExpectedTransfers(e.c, e.lines)

\* C12: a table entry with line-counter byte c # 0 lasts c & $7F lines, then the
\* next byte is fetched; the channel transfers on the first of these lines only
\* if bit 7 of c is clear, on every one of them if it is set.
C12_HdmaEntryLines ==
    \A ch \in Channels :
        /\ obs.entry[ch].c # 0 => EntryInStep(obs.entry[ch])
        /\ obs.done[ch].c # 0 =>
              /\ EntryInStep(obs.done[ch])
              /\ obs.done[ch].lines = obs.done[ch].c % 128

\* C13: once HDMA has taken a channel whose GDMA bit was set, that bit is clear
\* and the GDMA moves no further byte on the channel.
C13_HdmaPreemptsGdma ==
    /\ \A ch \in obs.hdma_over_gdma : Bit(bus.gdma_enable, ch) = 0
    /\ obs.gdma_after_hdma = 0

-----------------------------------------------------------------------------
(* Properties of the H/V IRQ *)

FrameDots == DOTS_PER_LINE * LINES_PER_FRAME
DotIndex(frame, x, y) == frame * FrameDots + y * DOTS_PER_LINE + x

\* the number of dots (h, v) among the dots the PPU has stepped onto since the
\* run began, counted from the positions alone
ExpectedRaises ==
    IF intr.h_count < DOTS_PER_LINE /\ intr.v_count < LINES_PER_FRAME
    THEN Cardinality({ k \in 0..ppu.frame_number :
                         /\ guest.start < DotIndex(k, intr.h_count, intr.v_count)
                         /\ DotIndex(k, intr.h_count, intr.v_count)
                              <= DotIndex(ppu.frame_number, ppu.x, ppu.y) })
    ELSE 0

\* C14: in H/V-IRQ mode 3 with targets H = h and V = v the PPU raises the IRQ
\* line exactly once per frame, at the dot x = h, y = v and at no other dot;
\* for H = $80, V = $100 that is the dot (128, 256)
C14_IrqOncePerFrameAtDot ==
    intr.hv_irq_enable = 3 =>
        /\ obs.irq_raises = ExpectedRaises
        /\ obs.irq_ok
        /\ obs.irq_raises > 0 => obs.irq_dot = <<intr.h_count, intr.v_count>>

\* the line was raised at (128, 256) for H = $80, V = $100, and a run over two
\* frames saw its second raise
C14_Witness ==
    \/ /\ intr.hv_irq_enable = 3 /\ intr.h_count = \h80 /\ intr.v_count = \h100
       /\ obs.irq_raises = 1 /\ obs.irq_dot = <<128, 256>> /\ guest.name = "irq"
    \/ /\ intr.hv_irq_enable = 3 /\ obs.irq_raises = 2 /\ ppu.frame_number = 1

\* C15: once raised the IRQ line stays asserted until $4211 is read; that read
\* returns $80 and clears the line, and a following read with no new match in
\* between returns $00
C15_TimeupReadsAndClears ==
    /\ obs.irq_raises > 0 /\ obs.timeup = <<>> => intr.irq
    /\ obs.timeup # <<>> => ~intr.irq
    /\ \A i \in DOMAIN obs.timeup :
          /\ obs.timeup[i].irq = (obs.irq_raises > 0 /\ i = 1)
          /\ obs.timeup[i].data = IF obs.timeup[i].irq THEN \h80 ELSE \h00

-----------------------------------------------------------------------------
(* Properties of the status registers $4210, $4212 and $4218-$421F *)

\* C16: of the reads of $4210 with no NMI flag set in between, the first returns
\* the NMI flag in bit 7 together with the CPU version and every later one
\* returns the CPU version alone, whatever the bus held before
C16_RdnmiFlagThenVersion ==
    \A i \in DOMAIN obs.rdnmi :
        /\ i > 1 => ~obs.rdnmi[i].flag
        /\ obs.rdnmi[i].data = (IF obs.rdnmi[i].flag THEN \h80 ELSE 0) + CPU_VERSION

\* bit 0 of the byte a read of $4212 returns when the clock after the read's
\* billing is t
BusyBitAt(t) == ReadHVBJOY([bus |-> bus, ppu |-> ppu], t) % 2

\* C17: after an enabled auto-joypad read, $4212 bit 0 reads 1 up to the last
\* clock before the trigger dot's master-clock time plus 4,224 and reads 0 from
\* that time on, neither earlier nor later
C17_BusyFor4224FromDot ==
    obs.auto_reads > 0 /\ ~ppu.auto_joypad_read =>
        \A t \in now..(obs.joypad_dot + JOYPAD_BUSY_CLOCKS + Span) :
            BusyBitAt(t) = IF t < obs.joypad_dot + JOYPAD_BUSY_CLOCKS THEN 1 ELSE 0

\* the byte of the words held at the latest enabled auto-joypad read (zero before
\* the first) that the register at `offset` stands for
CapturedByte(offset) == ReadJOY([controller |-> [port \in 0..1 |-> [data |-> obs.captured[port]]]], offset)

\* C18: $4218-$421F read the state captured by the most recent enabled
\* auto-joypad read; a host set_keys call between two auto-reads, or while
\* auto-joypad read is disabled, does not change what the guest reads there
C18_JoyRegistersHoldCapture ==
    \A offset \in \h4218..\h421F : ReadJOY(bus, offset) = CapturedByte(offset)

-----------------------------------------------------------------------------
(* Properties of the CPU step *)

\* C19: every executed CPU instruction strictly increases the master clock,
\* wherever it is fetched from and whatever it accesses ($4211 and $4300-$437F
\* included)
C19_InstructionAdvancesClock ==
    obs.last_step = "instr" => obs.step.clocks > 0

\* C20: after STP the CPU is halted for good: no later CPU step fetches an
\* opcode or changes PC or S
C20_StpHaltsForGood ==
    obs.step.stopped =>
        /\ obs.last_step \in {"idle", "skip"}
        /\ ~obs.step.pc_moved
        /\ ~obs.step.s_moved

\* C21: while the halt latch set by WAI is set and neither an NMI is pending
\* nor the IRQ line is asserted, a CPU step bills idle clocks, fetches no opcode
\* and leaves the latch set; the latch is cleared only by a step that found an
\* NMI latched or the IRQ line asserted
C21_HaltIdlesUntilInterrupt ==
    /\ (/\ obs.last_step \notin {"none", "skip"}
        /\ obs.step.halted
        /\ ~obs.step.nmi /\ ~obs.step.nmi_raise /\ ~obs.step.irq)
         => /\ obs.last_step = "idle"
            /\ obs.step.clocks = CPU_CYCLE
            /\ ~obs.step.pc_moved /\ ~obs.step.s_moved
            /\ obs.step.halt_after
    /\ obs.step.halted /\ ~obs.step.halt_after => obs.step.nmi \/ obs.step.irq
    /\ obs.step.halted /\ obs.last_step = "instr" => obs.step.irq

\* the halted CPU idled, and a later step found the IRQ line asserted and resumed
C21_Witness ==
    /\ obs.step.halted /\ ~obs.step.halt_after /\ obs.step.irq
    /\ obs.last_step = "instr"
    /\ obs.idle_steps > 0

-----------------------------------------------------------------------------
(* Construction: Snes::new, Context::new, Cartridge::new, Cpu::reset *)

RESET_VECTOR == \hFFFC
RESET_CLOCKS == 170

\* the places Rom::from_bytes looks for a header at, in its order
HeaderBases == <<\h007F00, \h00FF00, \h40FF00>>
HEADER_SPAN == \h100

\* a header as far as parse_header looks at it: the checksum complement and the
\* checksum (base + 0xDC, base + 0xDE), the map-mode nibble (base + 0xD5) and
\* the RAM-size byte (base + 0xD8)
HeaderChoices ==
    { [complement |-> \h0000, checksum |-> \h0000, mode |-> 0, ram |-> 0],
      [complement |-> \h5AA5, checksum |-> \hA55A, mode |-> 0, ram |-> 0],
      [complement |-> \hFFFF, checksum |-> \h0000, mode |-> 1, ram |-> 0],
      [complement |-> \h5AA5, checksum |-> \hA55A, mode |-> 2, ram |-> 0],
      [complement |-> \h5AA5, checksum |-> \hA55A, mode |-> 9, ram |-> 0] }

\* the lengths of the ROM images tried: with room for no header, and for the
\* first one, two and three of the header places
ImageLengths == {\h100, \h8000, \h10000, \h410000}

\* the bytes at the ROM offsets $7FFC/$7FFD and $FFFC/$FFFD of the images tried
VectorChoices ==
    { (\h7FFC :> \h00) @@ (\h7FFD :> \h80) @@ (\hFFFC :> \h00) @@ (\hFFFD :> \hC0),
      (\h7FFC :> \h34) @@ (\h7FFD :> \h92) @@ (\hFFFC :> \h78) @@ (\hFFFD :> \h56) }

\* the header places an image of the length has room for
BasesWithin(len) == { k \in 1..Len(HeaderBases) : HeaderBases[k] + HEADER_SPAN <= len }

\* the ROM images the host may pass to Snes::new
Images ==
    UNION { [len : {len}, header : [BasesWithin(len) -> HeaderChoices],
             bytes : { [i \in { j \in DOMAIN v : j < len } |-> v[i]] : v \in VectorChoices }]
            : len \in ImageLengths }

\* impl From<u8> for MapMode; `_ => unreachable!()` from 6 on
MapModeFrom(val) ==
    CASE val = 0 -> "LoRom" [] val = 1 -> "HiRom" [] val = 2 -> "SDd1"
      [] val = 3 -> "SA1" [] val = 4 -> "ExHiRom" [] val = 5 -> "Spc7110"
      [] OTHER -> "panic"

\* parse_header: Err for a checksum complement that is not !checksum, a panic in
\* MapMode::from for a nibble above 5, else the header
parse_header(h) ==
    IF h.complement # 65535 - h.checksum THEN [result |-> "Err"]
    ELSE IF MapModeFrom(h.mode % 16) = "panic" THEN [result |-> "panic"]
    ELSE [result |-> "Ok", map_mode |-> MapModeFrom(h.mode % 16),
          ram_size |-> IF h.ram = 0 THEN 0 ELSE 2 ^ h.ram]

\* Rom::from_bytes, from the k-th header place on: places the image is too short
\* for are skipped, the first header that parses is returned, else Err
RECURSIVE from_bytes(_, _)
from_bytes(img, k) ==
    IF k > Len(HeaderBases) THEN [result |-> "Err"]
    ELSE IF k \notin DOMAIN img.header THEN from_bytes(img, k + 1)
    ELSE IF parse_header(img.header[k]).result = "Err" THEN from_bytes(img, k + 1)
    ELSE parse_header(img.header[k])

\* the byte Cartridge::read returns for an address of the ROM area of bank 0
\* (offset >= $8000) of a LoRom or HiRom image
CartridgeByte(img, map_mode, offset) ==
    LET index == (IF map_mode = "LoRom" THEN offset - \h8000 ELSE offset) % img.len
    IN  IF index \in DOMAIN img.bytes THEN img.bytes[index] ELSE 0

\* what the bus shows at the reset vector of the image
VectorView(img) ==
    LET h == from_bytes(img, 1) IN
    IF h.result = "Ok" /\ h.map_mode \in {"LoRom", "HiRom"}
    THEN (RESET_VECTOR :> CartridgeByte(img, h.map_mode, RESET_VECTOR))
           @@ (RESET_VECTOR + 1 :> CartridgeByte(img, h.map_mode, RESET_VECTOR + 1))
    ELSE [addr \in {} |-> 0]

\* a reset that reads the vector high byte first
reset_BigEndian(m) ==
    LET Load(v) == [v.m EXCEPT !.cpu.pc = (v.data % 256) * 256 + v.data \div 256,
                               !.cpu.a = 0, !.cpu.x = 0, !.cpu.s = \h01FF,
                               !.cpu.p = StatusDefault, !.cpu.pb = 0, !.cpu.e = TRUE]
    IN  CpuElapse(Load(BusRead16(m, RESET_VECTOR)), RESET_CLOCKS)

\* Cpu::reset
reset(m) ==
    LET Load(v) == [v.m EXCEPT !.cpu.pc = v.data,
                               !.cpu.a = 0, !.cpu.x = 0, !.cpu.s = \h01FF,
                               !.cpu.p = StatusDefault, !.cpu.pb = 0, !.cpu.e = TRUE]
    IN  CpuElapse(Load(BusRead16(m, RESET_VECTOR)), RESET_CLOCKS)

\* the host is about to call Snes::new with one of the images
InitBoot ==
    /\ now = 0
    /\ cpu = CpuDefault
    /\ intr = InterruptDefault
    /\ ppu = PpuInit
    /\ spc = SpcInit
    /\ bus = BusDefault
    /\ cart = CartridgeNew
    /\ loop = [pos |-> "new", frame |-> 0, calls |-> 0]
    /\ obs = ObsInit
    /\ \E img \in Images :
          guest = [fill |-> 0, mem |-> VectorView(img), apu |-> <<>>,
                   sram_len |-> IF from_bytes(img, 1).result = "Ok"
                                THEN from_bytes(img, 1).ram_size * 1024 ELSE 0,
                   map_mode |-> IF from_bytes(img, 1).result = "Ok"
                                THEN from_bytes(img, 1).map_mode ELSE "none",
                   rom |-> img, parsed |-> from_bytes(img, 1).result,
                   until |-> 0, name |-> "boot"]

\* Snes::new: Context::new builds the cartridge with Cartridge::new, whose
\* `.expect("Failed to parse ROM")` panics on Err, and then resets the CPU, whose
\* read of the vector goes through Bus::read to the cartridge
SnesNew ==
    /\ loop.pos = "new"
    /\ IF guest.parsed # "Ok"
       THEN /\ obs' = [obs EXCEPT !.panic = IF guest.parsed = "Err" THEN "expect"
                                            ELSE "map_mode"]
            /\ UNCHANGED <<now, cpu, intr, ppu, spc, bus, cart>>
       ELSE Store(reset(M))
    /\ loop' = [loop EXCEPT !.pos = IF obs'.panic # "none" THEN "aborted"
                                    ELSE "returned"]
    /\ UNCHANGED guest

SpecBoot == InitBoot /\ [][SnesNew]_vars

-----------------------------------------------------------------------------
(* Properties of the CPU's mode flags and stack *)

\* C26: whenever E = 1 the M and X flags are both 1, after every instruction and
\* after every interrupt entry.
C26_EmulationForcesMX == cpu.e => cpu.p.m /\ cpu.p.x

\* the moves of S that C27 prescribes for emulation mode
PageOneMove(k) ==
    /\ k.from \in \h0100..\h01FF
    /\ k.to \in \h0100..\h01FF
    /\ k.op = "push" => /\ k.addr = k.from
                        /\ k.to = IF k.from = \h0100 THEN \h01FF ELSE k.from - 1
    /\ k.op = "pull" => /\ k.addr = k.to
                        /\ k.to = IF k.from = \h01FF THEN \h0100 ELSE k.from + 1

\* C27: whenever E = 1 the stack pointer is in page $01; a push at $0100 leaves
\* S = $01FF and a pull at $01FF leaves S = $0100.
C27_EmulationStackInPageOne ==
    /\ cpu.e => cpu.s \in \h0100..\h01FF
    /\ \A k \in obs.stack : k.e => PageOneMove(k)

C27_Witness ==
    /\ cpu.e
    /\ \E k \in obs.stack : k.e /\ k.op = "push" /\ k.from = \h0100 /\ k.to = \h01FF
    /\ \E k \in obs.stack : k.e /\ k.op = "pull" /\ k.from = \h01FF /\ k.to = \h0100
    /\ obs.nmi_entries > 0

-----------------------------------------------------------------------------
(* Properties of the PPU's dot and line counters *)

\* bit 7 of the byte a read of $4212 returns in the current state
VBlankBit == ReadHVBJOY([bus |-> bus, ppu |-> ppu], now) \div 128

\* C29 as stated: the NMI flag rises at dot (0, 225) only; $4212 bit 7 is set
\* from line 225 on and is cleared by the dot (x=1, y=0), so that it still reads
\* 1 at dot (0, 0).
C29_VBlankClearsAtDotOne ==
    /\ obs.flag_rise \subseteq {<<0, VBLANK_LINE>>}
    /\ obs.vblank_set \subseteq {<<0, VBLANK_LINE>>}
    /\ obs.vblank_clear \subseteq {<<1, 0>>}
    /\ VBlankBit = 1 <=> (ppu.y >= VBLANK_LINE \/ (ppu.y = 0 /\ ppu.x < 1))

\* C29, amended: the NMI flag rises at dot (0, 225) only; $4212 bit 7 is set at
\* dot (0, 225), reads 1 on lines 225..261 and is cleared by the dot (0, 0).
C29_VBlankClearsAtDotZero ==
    /\ obs.flag_rise \subseteq {<<0, VBLANK_LINE>>}
    /\ obs.vblank_set \subseteq {<<0, VBLANK_LINE>>}
    /\ obs.vblank_clear \subseteq {<<0, 0>>}
    /\ VBlankBit = 1 <=> ppu.y >= VBLANK_LINE

C29_Witness ==
    /\ obs.flag_rise = {<<0, VBLANK_LINE>>}
    /\ obs.vblank_set = {<<0, VBLANK_LINE>>}
    /\ obs.vblank_clear = {<<0, 0>>}
    /\ ppu.frame_number = 1 /\ ppu.y = VBLANK_LINE /\ VBlankBit = 1
    /\ obs.vblank_entries = 2

\* C30 as stated: a frame is 340 x 262 steps and advances the dot counter by
\* 356,480; 0 <= x < 340 and 0 <= y < 262.
C30_FrameIs356480Clocks ==
    /\ ppu.x \in 0..(DOTS_PER_LINE - 1) /\ ppu.y \in 0..(LINES_PER_FRAME - 1)
    /\ \A k \in 2..Len(obs.frames) :
          /\ obs.frames[k].steps = DOTS_PER_LINE * LINES_PER_FRAME
          /\ obs.frames[k].counter - obs.frames[k - 1].counter = 356480

\* C30, amended: between two consecutive increments of the frame counter the PPU
\* performs 340 x 262 steps of 4 clocks, its dot counter advancing by 356,320;
\* 0 <= x < 340 and 0 <= y < 262 in every state.
C30_FrameIs356320Clocks ==
    /\ ppu.x \in 0..(DOTS_PER_LINE - 1) /\ ppu.y \in 0..(LINES_PER_FRAME - 1)
    /\ ppu.frame_number = Len(obs.frames)
    /\ \A k \in 2..Len(obs.frames) :
          /\ obs.frames[k].steps = DOTS_PER_LINE * LINES_PER_FRAME
          /\ obs.frames[k].steps = 340 * 262
          /\ obs.frames[k].counter - obs.frames[k - 1].counter
                = PPU_DOT_CLOCKS * obs.frames[k].steps
          /\ obs.frames[k].counter - obs.frames[k - 1].counter = 356320

C30_Witness ==
    /\ Len(obs.frames) = 2 /\ ppu.frame_number = 2
    /\ obs.frames[2].steps = 340 * 262
    /\ obs.frames[2].counter - obs.frames[1].counter = 356320

-----------------------------------------------------------------------------
(* Properties of the APU's instructions and of aborts *)

\* C22: no operation the guest can reach aborts the emulator: every SPC700
\* instruction, every SPC read or write of the I/O addresses $00F0-$00FF and
\* every read or write of the CPU's bus completes without a panic.
C22_NoGuestOperationPanics ==
    spc.panic = "none" /\ obs.panic = "none" /\ loop.pos # "aborted"

\* C23: SLEEP and STOP stall the APU only: the instruction is logged, the
\* emulator does not abort, and exec_frame goes on.
C23_SleepStopOnlyStallApu == (spc.sleep \/ spc.stop) => loop.pos # "aborted"

\* the latest CPU step read or wrote an address that the guest's cartridge maps
\* to neither ROM nor SRAM
UnmappedAccess == obs.panic = "cartridge"

\* C24: a cartridge access outside the mapped ROM and SRAM returns the open-bus
\* byte (a read) or is dropped (a write); it does not abort the emulator.
C24_UnmappedCartridgeAccessIsOpenBus ==
    loop.pos = "aborted" => ~UnmappedAccess

-----------------------------------------------------------------------------
(* Properties of the block moves *)

\* C37: a block move (MVN or MVP) started with A = n moves exactly n + 1 bytes,
\* decrementing A once per byte moved, and ends with A = $FFFF, also when
\* interrupts are serviced between bytes.
C37_BlockMoveCount ==
    guest.name = "move" =>
        /\ obs.moved <= obs.move_n + 1
        /\ obs.moved > 0 => cpu.a = U16(obs.move_n + 65536 - obs.moved)
        /\ now >= guest.until => obs.moved = obs.move_n + 1 /\ cpu.a = \hFFFF

\* four bytes have been moved upwards, with an NMI serviced on the way
C37_Witness ==
    /\ guest.name = "move" /\ obs.move_n = 3 /\ obs.moved = 4 /\ cpu.a = \hFFFF
    /\ obs.nmi_entries = 1 /\ cpu.pc >= ProgramBase + 3 /\ cpu.pc < \h9000
    /\ \h40 \in DOMAIN bus.wram /\ bus.wram[\h40] = 5
    /\ \h41 \in DOMAIN bus.wram /\ bus.wram[\h41] = 6

-----------------------------------------------------------------------------
(* SpecPorts: register-level runs.  From the state Snes::new leaves, the guest *)
(* reads and writes registers through Bus::read and Bus::write, one access per *)
(* step; the run's name selects the registers and bytes it uses.               *)

PortBudget == 5

REG_CGADD == \h2121
REG_CGDATA == \h2122
REG_RDCGRAM == \h213B

REG_INIDISP == \h2100
UNUSED_B_BUS == \h2000
WRAM_BYTE == \h0010

APUIO0 == \h2140
IO_CONTROL == 1
IO_CPUIO0 == 4
IO_T0OUT == 13
CLEAR_01 == \h10
CLEAR_23 == \h20

REG_JOYSER0 == \h4016
SerialBudget == 14

PortRuns == {"cgram", "openbus", "mailbox", "timer", "joypad", "rom"}

\* the cartridge of a "rom" run: a 64 KiB image and 8 KiB of SRAM
SMALL_SRAM == \h2000
SmallImage == [len |-> \h10000, bytes |-> (\h0000 :> \h78) @@ (\h8000 :> \h4C)]

\* cartridge addresses of a "rom" run: program ROM and its mirror in bank $80,
\* bank $F0 (SRAM in LoRom, ROM in HiRom) and $00:6000 (SRAM in HiRom)
ROM_START == \h008000
ROM_MIRROR == \h808000
BANK_F0 == \hF00000
SRAM_HI == \h006000
CartAddrs == {ROM_START, ROM_MIRROR, BANK_F0, SRAM_HI}

\* what the host passes to set_keys in a "joypad" run: pad 1 as chosen, pad 3,
\* which shares controller[0] with it, holding B
PadKeys ==
    { [i \in 0..3 |-> IF i = 0 THEN held ELSE IF i = 2 THEN {"B"} ELSE {}] :
          held \in {{"B", "Start", "R"}, {"A"},
                    {"Y", "Select", "Up", "Down", "Left", "Right", "X", "L"}} }

\* <<address, byte>> pairs the guest may write in a run
CpuWrites(name) ==
    CASE name = "cgram" -> ({REG_CGADD} \X {0, 1, 255}) \cup ({REG_CGDATA} \X {1, 2})
      [] name = "openbus" -> ({REG_INIDISP} \X {15}) \cup ({WRAM_BYTE} \X {1, 2})
      [] name = "mailbox" -> {APUIO0 + port : port \in 0..3} \X {1}
      [] name = "joypad" -> {REG_JOYSER0} \X {0, 1}
      [] name = "rom" -> {a \in CartAddrs : ~CartridgePanics(a)} \X {\h11, \h22}
      [] OTHER -> {}

\* addresses the guest may read in a run
CpuReads(name) ==
    CASE name = "cgram" -> {REG_RDCGRAM}
      [] name = "openbus" -> {REG_INIDISP, UNUSED_B_BUS, WRAM_BYTE}
      [] name = "mailbox" -> {APUIO0, APUIO0 + 3}
      [] name = "joypad" -> {REG_JOYSER0}
      [] name = "rom" -> {a \in CartAddrs : ~CartridgePanics(a)}
      [] OTHER -> {}

\* <<index, byte>> pairs the SPC may write to its I/O registers in a run
ApuWrites(name) ==
    CASE name = "mailbox" -> ({IO_CONTROL} \X {0, CLEAR_01, CLEAR_23})
                               \cup ({IO_CPUIO0, IO_CPUIO0 + 3} \X {2})
      [] name = "timer" -> {IO_CONTROL} \X {0, 5}
      [] OTHER -> {}

\* indices of the I/O registers the SPC may read in a run
ApuReads(name) ==
    CASE name = "mailbox" -> {IO_CPUIO0 + 1, IO_CPUIO0 + 3}
      [] name = "timer" -> {IO_T0OUT, IO_T0OUT + 2}
      [] OTHER -> {}

\* SPC clocks a call of Spc::tick may find elapsed in a run
ApuElapsed(name) == IF name = "timer" THEN {TIMER_2_CLOCKS, TIMER_01_CLOCKS} ELSE {}

\* the timers of a "timer" run when it begins: programmed with one divider,
\* stopped, a number of steps after an increment, the outputs not yet read
TimerStarts ==
    { [divider |-> d, counter |-> c, output |-> o] :
          d \in {0, 1, 3}, c \in {0, 254}, o \in {0, 15} }

\* the steps between two increments of a timer whose divider is d
Period(d) == IF d = 0 THEN 256 ELSE d

BudgetOf(name) == IF name = "joypad" THEN SerialBudget ELSE PortBudget

InitPorts ==
    /\ now = 0
    /\ cpu = CpuDefault
    /\ intr = InterruptDefault
    /\ ppu = PpuInit
    /\ bus = BusDefault
    /\ cart = CartridgeNew
    /\ loop = IdleLoop
    /\ \E name \in PortRuns :
          /\ IF name = "rom"
             THEN \E mode \in {"LoRom", "HiRom"} :
                     guest = [fill |-> 0, mem |-> GuestVectors, apu |-> <<>>,
                              sram_len |-> SMALL_SRAM, map_mode |-> mode, rom |-> SmallImage,
                              until |-> 0, name |-> name, budget |-> BudgetOf(name)]
             ELSE guest = [fill |-> 0, mem |-> GuestVectors, apu |-> <<>>, sram_len |-> 0,
                           map_mode |-> "LoRom", until |-> 0, name |-> name,
                           budget |-> BudgetOf(name)]
          /\ IF name = "timer"
             THEN \E t \in TimerStarts :
                     /\ t.counter < Period(t.divider)
                     /\ spc = [SpcInit EXCEPT
                                  !.timer = [i \in 0..2 |->
                                                [TimerDefault EXCEPT
                                                    !.divider = t.divider,
                                                    !.counter = t.counter,
                                                    !.output = t.output]]]
                     /\ obs = [ObsInit EXCEPT
                                  !.since = [i \in 0..2 |-> t.counter],
                                  !.visible = [i \in 0..2 |-> t.output]]
             ELSE spc = SpcInit /\ obs = ObsInit

\* one more access of the run
Spend == guest' = [guest EXCEPT !.budget = @ - 1]

\* the guest's store to a register: Bus::write
CpuWrite ==
    /\ loop.pos = "idle" /\ guest.budget > 0
    /\ \E w \in CpuWrites(guest.name) :
          LET Noted(m) ==
                  [m EXCEPT !.obs.port = [kind |-> "cpu_write", addr |-> w[1], data |-> w[2]],
                            !.obs.latch = IF w[1] = REG_CGDATA
                                             /\ ppu.palette_cgram_addr % 2 = 0
                                          THEN w[2] ELSE @,
                            !.obs.bus_last = w[2],
                            !.obs.cpu_wrote = IF w[1] \in APUIO0..(APUIO0 + 3)
                                              THEN [@ EXCEPT ![w[1] - APUIO0] = w[2]]
                                              ELSE @,
                            !.obs.cleared = IF w[1] \in APUIO0..(APUIO0 + 3)
                                            THEN [@ EXCEPT ![w[1] - APUIO0] = FALSE]
                                            ELSE @,
                            !.obs.reads = IF w[1] = REG_JOYSER0 /\ w[2] % 2 = 1
                                          THEN 0 ELSE @]
          IN  Store(Noted(BusWrite(M, w[1], w[2])))
    /\ Spend
    /\ UNCHANGED loop

\* the guest's load from a register: Bus::read
CpuRead ==
    /\ loop.pos = "idle" /\ guest.budget > 0
    /\ \E addr \in CpuReads(guest.name) :
          LET Noted(r) ==
                  [r.m EXCEPT !.obs.port = [kind |-> "cpu_read", addr |-> addr,
                                            data |-> r.data],
                              !.obs.bus_last = r.data,
                              !.obs.reads = IF addr = REG_JOYSER0 /\ @ >= 0
                                            THEN @ + 1 ELSE @]
          IN  Store(Noted(BusRead(M, addr)))
    /\ Spend
    /\ UNCHANGED loop

\* the SPC700's store to one of its I/O registers: IORegisters::write
ApuWrite ==
    /\ loop.pos = "idle" /\ guest.budget > 0
    /\ \E w \in ApuWrites(guest.name) :
          /\ spc' = io_write(spc, w[1], w[2])
          /\ obs' = [obs EXCEPT
                        !.port = [kind |-> "apu_write", addr |-> w[1], data |-> w[2]],
                        !.apu_wrote = IF w[1] \in 4..7 THEN [@ EXCEPT ![w[1] - 4] = w[2]]
                                      ELSE @,
                        !.cleared = IF w[1] = IO_CONTROL /\ (w[2] \div 16) % 4 # 0
                                    THEN [port \in 0..3 |-> TRUE] ELSE @]
    /\ Spend
    /\ UNCHANGED <<now, cpu, intr, ppu, bus, cart, loop>>

\* the SPC700's load from one of its I/O registers: IORegisters::read
ApuRead ==
    /\ loop.pos = "idle" /\ guest.budget > 0
    /\ \E index \in ApuReads(guest.name) :
          /\ spc' = io_read(spc, index).spc
          /\ obs' = [obs EXCEPT
                        !.port = [kind |-> "apu_read", addr |-> index,
                                  data |-> io_read(spc, index).data],
                        !.visible = IF index \in 13..15 THEN [@ EXCEPT ![index - 13] = 0]
                                    ELSE @]
    /\ Spend
    /\ UNCHANGED <<now, cpu, intr, ppu, bus, cart, loop>>

\* the steps timer i takes while the SPC clock goes from `before` to `after`
TimerSteps(i, before, after) ==
    LET clocks == IF i < 2 THEN TIMER_01_CLOCKS ELSE TIMER_2_CLOCKS
    IN  (after \div clocks) - (before \div clocks)

\* the call of IORegisters::tick_timer at the end of Spc::tick
TimerTick ==
    /\ loop.pos = "idle" /\ guest.budget > 0
    /\ \E elapsed \in ApuElapsed(guest.name) :
          /\ spc' = tick_timer(spc, elapsed)
          /\ obs' = [obs EXCEPT
                        !.port = [kind |-> "tick", addr |-> 0, data |-> elapsed],
                        !.apu_clocks = @ + elapsed,
                        !.since =
                            [i \in 0..2 |->
                                IF spc.timer[i].is_enabled
                                THEN (@[i] + TimerSteps(i, obs.apu_clocks,
                                                        obs.apu_clocks + elapsed))
                                        % Period(spc.timer[i].divider)
                                ELSE @[i]],
                        !.visible =
                            [i \in 0..2 |->
                                IF spc.timer[i].is_enabled
                                THEN (@[i] + (obs.since[i]
                                                + TimerSteps(i, obs.apu_clocks,
                                                             obs.apu_clocks + elapsed))
                                               \div Period(spc.timer[i].divider)) % 16
                                ELSE @[i]]]
    /\ Spend
    /\ UNCHANGED <<now, cpu, intr, ppu, bus, cart, loop>>

\* the host presents the pads' keys: Snes::set_keys
PresentKeys ==
    /\ loop.pos = "idle" /\ guest.budget > 0 /\ guest.name = "joypad"
    /\ \E keys \in PadKeys :
          /\ bus' = set_keys(bus, keys)
          /\ obs' = [obs EXCEPT !.port = [kind |-> "keys", addr |-> 0, data |-> 0],
                                !.keys = keys[0]]
    /\ Spend
    /\ UNCHANGED <<now, cpu, intr, ppu, spc, cart, loop>>

NextPorts == CpuWrite \/ CpuRead \/ ApuWrite \/ ApuRead \/ TimerTick \/ PresentKeys

SpecPorts == InitPorts /\ [][NextPorts]_vars

-----------------------------------------------------------------------------
(* Properties of the register ports *)

\* the step is a guest write of `addr`
WriteStep(addr) ==
    /\ guest'.budget # guest.budget
    /\ obs'.port.kind = "cpu_write" /\ obs'.port.addr = addr

\* C31: a write to $2122 while the CGRAM byte address is even changes no CGRAM
\* entry (it fills the low-byte latch), and the following write at an odd
\* address commits (byte << 8 | latch) to the entry address / 2; no other entry
\* changes.
C31_CgramCommitsOnOddWrite ==
    [][WriteStep(REG_CGDATA) =>
          \A i \in 0..255 :
              CgramEntry(ppu', i) =
                  IF ppu.palette_cgram_addr % 2 = 1 /\ i = ppu.palette_cgram_addr \div 2
                  THEN obs'.port.data * 256 + obs.latch
                  ELSE CgramEntry(ppu, i)]_vars

\* entry 255 holds the pair written through the port after the address wrapped
C31_Witness ==
    /\ guest.name = "cgram" /\ obs.port.addr = REG_CGDATA
    /\ CgramEntry(ppu, 255) = 2 * 256 + 1
    /\ ppu.palette_cgram_addr = 0

\* the step is a guest read of `addr`
ReadStep(addr) ==
    /\ guest'.budget # guest.budget
    /\ obs'.port.kind = "cpu_read" /\ obs'.port.addr = addr

\* C32: a Bus read of an unmapped address or of a write-only register returns
\* the open-bus byte, which is the value of the most recent Bus read or write;
\* every Bus write sets the open-bus byte to the written value.
C32_OpenBusIsLastBusValue ==
    [][/\ \A addr \in {REG_INIDISP, UNUSED_B_BUS} :
             ReadStep(addr) /\ obs.bus_last >= 0 => obs'.port.data = obs.bus_last
       /\ \A addr \in {REG_INIDISP, WRAM_BYTE} :
             WriteStep(addr) => bus'.open_bus = obs'.port.data]_vars

\* the step is an SPC700 access of the I/O register `index`
ApuStep(kind, index) ==
    /\ guest'.budget # guest.budget
    /\ obs'.port.kind = kind /\ obs'.port.addr = index

\* C33: for each mailbox port the two directions are independent: a CPU read of
\* $2140+i returns the last byte the SPC wrote to $F4+i, never the CPU's own
\* write, and an SPC read of $F4+i returns the last byte the CPU wrote to
\* $2140+i unless the SPC has since cleared the port through $F1; no access
\* waits for the other side.
C33_MailboxDirectionsIndependent ==
    [][/\ \A port \in 0..3 :
             ReadStep(APUIO0 + port) /\ obs.apu_wrote[port] >= 0 =>
                 obs'.port.data = obs.apu_wrote[port]
       /\ \A port \in 0..3 :
             ApuStep("apu_read", IO_CPUIO0 + port) /\ obs.cpu_wrote[port] >= 0 =>
                 \/ obs'.port.data = obs.cpu_wrote[port]
                 \/ obs.cleared[port] /\ obs'.port.data = 0
       /\ \A port \in 0..3 :
             WriteStep(APUIO0 + port) => spc'.cpu_out = spc.cpu_out
       /\ \A port \in 0..3 :
             ApuStep("apu_write", IO_CPUIO0 + port) => spc'.cpu_in = spc.cpu_in]_vars

\* the CPU has read, from a port it wrote 1 to, the 2 the SPC wrote there
C33_Witness ==
    /\ guest.name = "mailbox"
    /\ obs.port = [kind |-> "cpu_read", addr |-> APUIO0 + 3, data |-> 2]
    /\ obs.cpu_wrote[3] = 1 /\ spc.cpu_in[3] = 1

\* C34: an SPC write to $F1 clears mailbox input bytes only in whole halves: one
\* clear bit zeroes exactly the input ports 0 and 1, the other exactly 2 and 3;
\* clearing one half leaves the other unchanged, and with neither bit set no
\* mailbox byte changes.
C34_ControlClearsHalves ==
    [][ApuStep("apu_write", IO_CONTROL) =>
          \A port \in 0..3 :
              spc'.cpu_in[port] =
                  IF (obs'.port.data \div (IF port < 2 THEN CLEAR_01 ELSE CLEAR_23)) % 2 = 1
                  THEN 0 ELSE spc.cpu_in[port]]_vars

SerialOrder ==
    << "B", "Y", "Select", "Start", "Up", "Down", "Left", "Right", "A", "X", "L", "R" >>

\* C36: after a write of 1 to bit 0 of $4016, the k-th read of $4016 that follows
\* (k = 1..12) returns in bit 0 the k-th button of B, Y, Select, Start, Up, Down,
\* Left, Right, A, X, L, R as the host last presented it for port 1.
C36_SerialReadOrder ==
    [][ReadStep(REG_JOYSER0) /\ obs.reads \in 0..11 =>
          (obs'.port.data % 2 = 1) = (SerialOrder[obs.reads + 1] \in obs.keys)]_vars

\* the twelfth read after the strobe has returned R, held with B and Start
C36_Witness ==
    /\ guest.name = "joypad" /\ obs.reads = 12
    /\ obs.keys = {"B", "Start", "R"}
    /\ obs.port.kind = "cpu_read" /\ obs.port.data % 2 = 1

-----------------------------------------------------------------------------
(* Properties of construction and reset *)

\* Snes::new has come back, or has panicked, for the image the host passed
Constructed == guest.name = "boot" /\ loop.pos = "returned"
BootAborted == guest.name = "boot" /\ loop.pos = "aborted"

\* C25: constructing the core from an image with no valid header, or too short
\* to hold one, does not abort: the failure is reported through the
\* constructor's return value.
C25_BadRomIsReportedNotAborted == guest.name = "boot" => loop.pos # "aborted"

\* C28: after reset E = 1, M = 1, X = 1, I = 1, D = 0, S = $01FF and PC is the
\* little-endian word at $00FFFC.
C28_ResetState ==
    Constructed =>
        /\ cpu.e /\ cpu.p.m /\ cpu.p.x /\ cpu.p.i /\ ~cpu.p.d
        /\ cpu.s = \h01FF
        /\ cpu.pc = MemByte(\h00FFFC) + 256 * MemByte(\h00FFFD)
        /\ cpu.pc = CartridgeByte(guest.rom, guest.map_mode, \hFFFC)
                      + 256 * CartridgeByte(guest.rom, guest.map_mode, \hFFFD)

C28_Witness ==
    /\ Constructed /\ guest.map_mode = "LoRom" /\ guest.rom.len = \h10000
    /\ cpu.pc = \h9234 /\ cpu.s = \h01FF /\ cpu.e /\ now > 0

-----------------------------------------------------------------------------
(* Properties of the cartridge *)

\* the indices at which two arrays of the cartridge differ
Changed(before, after) ==
    { i \in DOMAIN after : i \notin DOMAIN before \/ before[i] # after[i] }

\* C39: guest writes never change the ROM: a cartridge write changes at most one
\* SRAM byte and no ROM byte, and a read of a ROM-mapped address returns the
\* byte of the image whatever was written before.
C39_WritesLeaveRomAlone ==
    [][guest.name = "rom" =>
          /\ cart'.rom = cart.rom
          /\ Cardinality(Changed(cart.sram, cart'.sram)) <= 1
          /\ \A a \in CartAddrs :
                (ReadStep(a) /\ CartridgeIndex(a).array = "rom")
                    => obs'.port.data = ImageByte(a, CartridgeIndex(a).index)]_vars

-----------------------------------------------------------------------------
(* Properties of the clocks *)

\* the step of exec_frame that is ppu_tick(), and the one that is spc_tick()
\* returning
PpuTicked == loop.pos = "ppu" /\ loop'.pos = "spc"
SpcTicked == loop.pos = "spc" /\ loop'.pos = "bus"

\* C40: the master clock never decreases; when the PPU has been ticked its
\* counter is at most one dot (4 master clocks) behind the master clock, and
\* when the APU has been ticked its counter is not behind the master clock
\* scaled to the APU rate.
C40_CountersFollowClock ==
    [][/\ now' >= now
       /\ PpuTicked => (ppu'.counter <= now' /\ now' - ppu'.counter <= PPU_DOT_CLOCKS)
       /\ SpcTicked => spc'.counter >= clock_from_master(now')]_vars

\* the APU has just been ticked: it has run past the scaled master clock by one
\* clock with its third instruction or a later one, and the PPU is two
\* clocks behind
C40_Witness ==
    /\ loop.pos = "bus"
    /\ now - ppu.counter = 2
    /\ spc.counter = clock_from_master(now) + 1
    /\ spc.prev_counter = spc.counter /\ spc.ip > 3

====
